---- MODULE Spec2Model ----
(***************************************************************************)
(* EDN reader / writer of datomic-py.                                      *)
(*                                                                         *)
(* Text is a sequence of one-character strings.  A Python value is a       *)
(* record [t |-> type name, v |-> payload]; Python's == is PyEq below.     *)
(* A call either returns or raises; both are outcome records.  The reader  *)
(* object (s, pos, length, max_depth, _current_depth, _tag_registry) is    *)
(* threaded through the operators that model its methods.                  *)
(***************************************************************************)
EXTENDS Integers, Sequences, FiniteSets, TLC

VARIABLES
    pc,         \* the call that comes next: "dumps", "loads", "loads_variant", "registry", "done"
    obj,        \* the object handed to dumps
    s,          \* the text handed to loads or to parse_datetime
    variant,    \* a second text, read by the same call, for relational properties
    max_depth,  \* the max_depth argument of loads
    shape,      \* how the input was built (what the property needs to know about it)
    out,        \* outcome of the call on s
    out2,       \* outcome of the call on variant
    heap,       \* the dict objects of the process: heap[id] is the content of dict id
    regs,       \* the TagRegistry instances; regs[1] is default_registry
    calls,      \* the register and unregister calls made so far, in order
    tags,       \* the set a caller got from known_tags, as the caller holds it
    threads,    \* the reads in progress side by side: reader, open collections, outcome
    depths      \* the _current_depth counters of the readers of threads

vars == <<pc, obj, s, variant, max_depth, shape, out, out2, heap, regs, calls, tags, threads,
          depths>>

\* the readers of reads made side by side
readvars == <<threads, depths>>

\* the registries and what callers hold of them, and the reads in progress
regvars == <<heap, regs, calls, tags, readvars>>

----------------------------------------------------------------------------
(* Sequences and characters *)

None == "None"

Digits == {"0", "1", "2", "3", "4", "5", "6", "7", "8", "9"}

DigitVal(c) ==
    CASE c = "0" -> 0 [] c = "1" -> 1 [] c = "2" -> 2 [] c = "3" -> 3 [] c = "4" -> 4
      [] c = "5" -> 5 [] c = "6" -> 6 [] c = "7" -> 7 [] c = "8" -> 8 [] c = "9" -> 9

DigitChr(d) ==
    CASE d = 0 -> "0" [] d = 1 -> "1" [] d = 2 -> "2" [] d = 3 -> "3" [] d = 4 -> "4"
      [] d = 5 -> "5" [] d = 6 -> "6" [] d = 7 -> "7" [] d = 8 -> "8" [] d = 9 -> "9"

\* " \t\n\r," of skip_whitespace_and_comments
\* a reader to which the comma is not whitespace
Whitespace_no_comma == {" ", "\t", "\n", "\r"}

Whitespace == {" ", "\t", "\n", "\r", ","}

\* " \t\n\r,()[]{}\"\\;" of read_symbol_or_keyword and _read_char
Delimiters == {" ", "\t", "\n", "\r", ",", "(", ")", "[", "]", "{", "}", "\"", "\\", ";"}

\* a read_value to which a closing delimiter starts a symbol
NotSymbolStart_openers == {"(", "[", "{", "\"", "\\", ";", ",", "@"}

\* "()[]{}\"\\;,@" of read_value
NotSymbolStart == {"(", ")", "[", "]", "{", "}", "\"", "\\", ";", ",", "@"}

\* q[from:] with 0-based from
Rest(q, from) == SubSeq(q, from + 1, Len(q))

StartsWith(q, p) == Len(p) <= Len(q) /\ SubSeq(q, 1, Len(p)) = p

EndsWith(q, p) == Len(p) <= Len(q) /\ SubSeq(q, Len(q) - Len(p) + 1, Len(q)) = p

\* sep.join(qs)
RECURSIVE Join(_, _)
Join(sep, qs) ==
    IF qs = <<>> THEN <<>>
    ELSE IF Len(qs) = 1 THEN qs[1]
    ELSE qs[1] \o sep \o Join(sep, Tail(qs))

Range(q) == {q[i] : i \in DOMAIN q}

RECURSIVE Pow10(_)
Pow10(n) == IF n = 0 THEN 1 ELSE 10 * Pow10(n - 1)

----------------------------------------------------------------------------
(* Python values *)

V(t, v) == [t |-> t, v |-> v]

NilV == V("NoneType", 0)
BoolV(b) == V("bool", b)
IntV(n) == V("int", n)
StrV(q) == V("str", q)
TupleV(q) == V("tuple", q)
ListV(q) == V("list", q)
SetV(q) == V("frozenset", q)
DictV(q) == V("dict", q)
UuidV(h) == V("UUID", h)

\* the _Skip singleton
SKIP == V("_Skip", 0)


\* a float as m * 10^e with m not divisible by 10 (0.0 is <<0, 0>>); sp names inf, -inf, nan
FloatV(m, e) == V("float", [m |-> m, e |-> e, sp |-> ""])
FloatSpecial(sp) == V("float", [m |-> 0, e |-> 0, sp |-> sp])

\* a datetime; off is the UTC offset in minutes, meaningful when aware
DatetimeV(y, mo, d, h, mi, sec, us, aware, off) ==
    V("datetime", [y |-> y, mo |-> mo, d |-> d, h |-> h, mi |-> mi, sec |-> sec,
                   us |-> us, aware |-> aware, off |-> off])

RECURSIVE Norm(_, _)
Norm(m, e) ==
    IF m = 0 THEN <<0, 0>>
    ELSE IF m % 10 = 0 THEN Norm(m \div 10, e + 1)
    ELSE <<m, e>>

Abs(n) == IF n < 0 THEN -n ELSE n

RECURSIVE NatStr(_)
NatStr(n) == IF n < 10 THEN <<DigitChr(n)>> ELSE NatStr(n \div 10) \o <<DigitChr(n % 10)>>

RECURSIVE NatVal(_)
NatVal(q) == IF q = <<>> THEN 0 ELSE 10 * NatVal(SubSeq(q, 1, Len(q) - 1)) + DigitVal(q[Len(q)])

RECURSIVE Zeros(_)
Zeros(n) == IF n <= 0 THEN <<>> ELSE <<"0">> \o Zeros(n - 1)

\* str(n) for an int
IntStr(n) == IF n < 0 THEN <<"-">> \o NatStr(-n) ELSE NatStr(n)

\* str(x) for a float: repr's shortest form, exponent form when decpt <= -4 or decpt > 16
FloatStr(f) ==
    IF f.sp = "nan" THEN <<"n", "a", "n">>
    ELSE IF f.sp = "inf" THEN <<"i", "n", "f">>
    ELSE IF f.sp = "-inf" THEN <<"-", "i", "n", "f">>
    ELSE IF f.m = 0 THEN <<"0", ".", "0">>
    ELSE
      LET sign == IF f.m < 0 THEN <<"-">> ELSE <<>>
          ds == NatStr(Abs(f.m))
          k == Len(ds)
          decpt == k + f.e
          x == decpt - 1
          xs == NatStr(Abs(x))
      IN  IF decpt <= -4 \/ decpt > 16
          THEN sign \o <<ds[1]>> \o (IF k > 1 THEN <<".">> \o SubSeq(ds, 2, k) ELSE <<>>)
               \o <<"e">> \o (IF x < 0 THEN <<"-">> ELSE <<"+">>)
               \o (IF Len(xs) < 2 THEN <<"0">> \o xs ELSE xs)
          ELSE IF decpt <= 0 THEN sign \o <<"0", ".">> \o Zeros(-decpt) \o ds
          ELSE IF decpt >= k THEN sign \o ds \o Zeros(decpt - k) \o <<".", "0">>
          ELSE sign \o SubSeq(ds, 1, decpt) \o <<".">> \o SubSeq(ds, decpt + 1, k)

\* the longest run of digits of q starting at 1-based index i; the index after it
RECURSIVE DigitsEnd(_, _)
DigitsEnd(q, i) == IF i <= Len(q) /\ q[i] \in Digits THEN DigitsEnd(q, i + 1) ELSE i

ValueError == "ValueError"
TypeError == "TypeError"
EDNParseError == "EDNParseError"

\* int(num_str): [sign] digits; anything else is a ValueError
PyInt(q) ==
    LET i0 == IF q /= <<>> /\ q[1] \in {"+", "-"} THEN 2 ELSE 1
        i1 == DigitsEnd(q, i0)
    IN  IF i1 > i0 /\ i1 = Len(q) + 1
        THEN [ok |-> TRUE,
              val |-> IntV((IF q[1] = "-" THEN -1 ELSE 1) * NatVal(SubSeq(q, i0, i1 - 1)))]
        ELSE [ok |-> FALSE, val |-> NilV]

\* float(num_str): [sign] (digits [. [digits]] | . digits) [(e|E) [sign] digits]
PyFloat(q) ==
    LET i0 == IF q /= <<>> /\ q[1] \in {"+", "-"} THEN 2 ELSE 1
        i1 == DigitsEnd(q, i0)
        dot == i1 <= Len(q) /\ q[i1] = "."
        f0 == IF dot THEN i1 + 1 ELSE i1
        f1 == DigitsEnd(q, f0)
        ip == SubSeq(q, i0, i1 - 1)
        fp == SubSeq(q, f0, f1 - 1)
        hasExp == f1 <= Len(q) /\ q[f1] \in {"e", "E"}
        x0 == IF hasExp /\ f1 + 1 <= Len(q) /\ q[f1 + 1] \in {"+", "-"} THEN f1 + 2 ELSE f1 + 1
        x1 == IF hasExp THEN DigitsEnd(q, x0) ELSE f1
        xneg == hasExp /\ f1 + 1 <= Len(q) /\ q[f1 + 1] = "-"
        x == IF hasExp THEN (IF xneg THEN -1 ELSE 1) * NatVal(SubSeq(q, x0, x1 - 1)) ELSE 0
        wellFormed ==
            /\ Len(ip) + Len(fp) > 0
            /\ hasExp => x1 > x0
            /\ x1 = Len(q) + 1
        neg == q /= <<>> /\ q[1] = "-"
        mant == NatVal(ip \o fp)
        n == Norm((IF neg THEN -1 ELSE 1) * mant, x - Len(fp))
        sci == Len(NatStr(Abs(n[1]))) + n[2] - 1
    IN  IF ~wellFormed THEN [ok |-> FALSE, val |-> NilV]
        ELSE IF n[1] /= 0 /\ sci >= 309
             THEN [ok |-> TRUE, val |-> FloatSpecial(IF neg THEN "-inf" ELSE "inf")]
        ELSE IF n[1] /= 0 /\ sci <= -325 THEN [ok |-> TRUE, val |-> FloatV(0, 0)]
        ELSE [ok |-> TRUE, val |-> FloatV(n[1], n[2])]

----------------------------------------------------------------------------
(* Python equality and hashing *)

\* Key(a) = Key(b) exactly when a == b in Python (nan aside)
RECURSIVE Key(_)
Key(a) ==
    CASE a.t = "bool" -> V("num", IF a.v THEN <<1, 0>> ELSE <<0, 0>>)
      [] a.t = "int" -> V("num", Norm(a.v, 0))
      [] a.t = "float" -> IF a.v.sp = "" THEN V("num", <<a.v.m, a.v.e>>) ELSE V("floatsp", a.v.sp)
      [] a.t = "datetime" ->
            IF a.v.aware
            THEN V("aware", <<a.v.y, a.v.mo, a.v.d, 60 * a.v.h + a.v.mi - a.v.off, a.v.sec, a.v.us>>)
            ELSE V("naive", <<a.v.y, a.v.mo, a.v.d, 60 * a.v.h + a.v.mi, a.v.sec, a.v.us>>)
      [] a.t \in {"tuple", "list"} -> V(a.t, [i \in DOMAIN a.v |-> Key(a.v[i])])
      [] a.t = "frozenset" -> V("frozenset", {Key(a.v[i]) : i \in DOMAIN a.v})
      [] a.t = "dict" -> V("dict", {<<Key(a.v[i][1]), Key(a.v[i][2])>> : i \in DOMAIN a.v})
      [] OTHER -> a

IsNan(a) == a.t = "float" /\ a.v.sp = "nan"

PyEq(a, b) == ~IsNan(a) /\ ~IsNan(b) /\ Key(a) = Key(b)

\* hash(a) succeeds
RECURSIVE Hashable(_)
Hashable(a) ==
    CASE a.t \in {"dict", "list", "set"} -> FALSE
      [] a.t = "tuple" -> \A i \in DOMAIN a.v : Hashable(a.v[i])
      [] OTHER -> TRUE

\* frozenset(items): the first of each class of equal items, in encounter order
RECURSIVE Dedup(_, _)
Dedup(items, acc) ==
    IF items = <<>> THEN acc
    ELSE IF \E i \in DOMAIN acc : PyEq(acc[i], Head(items)) THEN Dedup(Tail(items), acc)
    ELSE Dedup(Tail(items), Append(acc, Head(items)))

\* result[key] = value: an equal key keeps its place and its key object
DictSet(pairs, key, value) ==
    IF \E i \in DOMAIN pairs : PyEq(pairs[i][1], key)
    THEN [i \in DOMAIN pairs |-> IF PyEq(pairs[i][1], key) THEN <<pairs[i][1], value>> ELSE pairs[i]]
    ELSE Append(pairs, <<key, value>>)

----------------------------------------------------------------------------
(* datetime and UUID: the library calls of datetime_utils.py, tags.py and writer.py *)

\* the value of the n digits of q at 1-based i, or -1
NumAt(q, i, n) ==
    IF i >= 1 /\ i + n - 1 <= Len(q) /\ \A j \in i..(i + n - 1) : q[j] \in Digits
    THEN NatVal(SubSeq(q, i, i + n - 1))
    ELSE -1

IsLeap(y) == (y % 4 = 0 /\ y % 100 /= 0) \/ y % 400 = 0

DaysIn(y, mo) ==
    IF mo \in {4, 6, 9, 11} THEN 30
    ELSE IF mo = 2 THEN (IF IsLeap(y) THEN 29 ELSE 28)
    ELSE 31

ValidFields(y, mo, d, h, mi, sec) ==
    /\ y \in 1..9999
    /\ mo \in 1..12
    /\ d >= 1 /\ d <= DaysIn(y, mo)
    /\ h \in 0..23
    /\ mi \in 0..59
    /\ sec \in 0..59

NoValue == [ok |-> FALSE, val |-> NilV]

\* microseconds of a run of fraction digits: the first six, right-padded
FracVal(ds) ==
    LET n == IF Len(ds) > 6 THEN 6 ELSE Len(ds)
    IN  NatVal(SubSeq(ds, 1, n)) * Pow10(6 - n)

\* minutes of HH, HHMM or HH:MM, or -1
ParseOffset(tz) ==
    LET hh == NumAt(tz, 1, 2)
        mm == IF Len(tz) = 2 THEN 0
              ELSE IF Len(tz) = 4 THEN NumAt(tz, 3, 2)
              ELSE IF Len(tz) = 5 /\ tz[3] = ":" THEN NumAt(tz, 4, 2)
              ELSE -1
    IN  IF hh \in 0..23 /\ mm \in 0..59 THEN 60 * hh + mm ELSE -1

\* the first 1-based index >= i of q holding + or -, Len(q) + 1 when there is none
RECURSIVE TzSignAt(_, _)
TzSignAt(q, i) ==
    IF i > Len(q) THEN i
    ELSE IF q[i] \in {"+", "-"} THEN i
    ELSE TzSignAt(q, i + 1)

\* datetime.fromisoformat: YYYY-MM-DD[*HH[:MM[:SS[.f+]]][(+|-)HH[[:]MM]]]
FromIsoFormat(q) ==
    LET y == NumAt(q, 1, 4)
        mo == NumAt(q, 6, 2)
        d == NumAt(q, 9, 2)
        dateOk == Len(q) >= 10 /\ q[5] = "-" /\ q[8] = "-" /\ y >= 0 /\ mo >= 0 /\ d >= 0
        sg == TzSignAt(q, 12)
        ts == SubSeq(q, 12, sg - 1)
        hasTz == sg <= Len(q)
        off == IF hasTz THEN ParseOffset(SubSeq(q, sg + 1, Len(q))) ELSE 0
        h == NumAt(ts, 1, 2)
        mi == IF Len(ts) >= 5 THEN NumAt(ts, 4, 2) ELSE 0
        sec == IF Len(ts) >= 8 THEN NumAt(ts, 7, 2) ELSE 0
        frac == SubSeq(ts, 10, Len(ts))
        timeOk ==
            /\ \/ Len(ts) = 2
               \/ Len(ts) = 5 /\ ts[3] = ":"
               \/ Len(ts) = 8 /\ ts[3] = ":" /\ ts[6] = ":"
               \/ /\ Len(ts) >= 10 /\ ts[3] = ":" /\ ts[6] = ":" /\ ts[9] \in {".", ","}
                  /\ \A j \in DOMAIN frac : frac[j] \in Digits
            /\ off >= 0
        us == IF Len(ts) >= 10 THEN FracVal(frac) ELSE 0
    IN  IF ~dateOk THEN NoValue
        ELSE IF Len(q) = 10
             THEN IF ValidFields(y, mo, d, 0, 0, 0)
                  THEN [ok |-> TRUE, val |-> DatetimeV(y, mo, d, 0, 0, 0, 0, FALSE, 0)]
                  ELSE NoValue
        ELSE IF timeOk /\ ValidFields(y, mo, d, h, mi, sec)
             THEN [ok |-> TRUE,
                   val |-> DatetimeV(y, mo, d, h, mi, sec, us, hasTz,
                                     IF hasTz /\ q[sg] = "-" THEN -off ELSE off)]
        ELSE NoValue

\* a strptime field of one or two digits starting at i: <<value, index after it>>, value -1 if none
Field(q, i) ==
    LET e == DigitsEnd(q, i)
    IN  IF e - i \in {1, 2} THEN <<NatVal(SubSeq(q, i, e - 1)), e>> ELSE <<-1, i>>

Is(q, i, cs) == i >= 1 /\ i <= Len(q) /\ q[i] \in cs

\* datetime.strptime(value, "%Y-%m-%dT%H:%M:%S" [+ ".%f"] [+ "%z"])
Strptime(q, withFrac, withZone) ==
    LET y == NumAt(q, 1, 4)
        mo == Field(q, 6)
        d == Field(q, mo[2] + 1)
        h == Field(q, d[2] + 1)
        mi == Field(q, h[2] + 1)
        sec == Field(q, mi[2] + 1)
        fEnd == IF withFrac THEN DigitsEnd(q, sec[2] + 1) ELSE sec[2]
        frac == SubSeq(q, sec[2] + 1, fEnd - 1)
        z == SubSeq(q, fEnd, Len(q))
        zOff == IF z = <<"Z">> THEN 0
                ELSE IF Len(z) \in {5, 6} /\ z[1] \in {"+", "-"} THEN ParseOffset(Tail(z))
                ELSE -1
        shapeOk ==
            /\ y >= 0 /\ Is(q, 5, {"-"})
            /\ mo[1] >= 0 /\ Is(q, mo[2], {"-"})
            /\ d[1] >= 0 /\ Is(q, d[2], {"T", "t"})
            /\ h[1] >= 0 /\ Is(q, h[2], {":"})
            /\ mi[1] >= 0 /\ Is(q, mi[2], {":"})
            /\ sec[1] >= 0
            /\ withFrac => Is(q, sec[2], {"."}) /\ Len(frac) \in 1..6
            /\ IF withZone THEN zOff >= 0 ELSE z = <<>>
    IN  IF shapeOk /\ ValidFields(y, mo[1], d[1], h[1], mi[1], sec[1])
        THEN [ok |-> TRUE,
              val |-> DatetimeV(y, mo[1], d[1], h[1], mi[1], sec[1],
                                IF withFrac THEN FracVal(frac) ELSE 0, withZone,
                                IF withZone /\ z[1] = "-" THEN -zOff ELSE zOff)]
        ELSE NoValue

\* a parse_datetime without the tzinfo is None branch
AssumeUtc_never(dt) == dt

\* dt.replace(tzinfo=timezone.utc) when dt.tzinfo is None
AssumeUtc(dt) == IF dt.v.aware THEN dt ELSE V("datetime", [dt.v EXCEPT !.aware = TRUE, !.off = 0])

\* the formats list of parse_datetime, as <<with %f, with %z>>
formats == << <<TRUE, TRUE>>, <<FALSE, TRUE>>, <<TRUE, FALSE>>, <<FALSE, FALSE>> >>

RECURSIVE TryFormats(_, _)
TryFormats(value, i) ==
    IF i > Len(formats) THEN NoValue
    ELSE LET r == Strptime(value, formats[i][1], formats[i][2])
         IN  IF r.ok THEN [ok |-> TRUE, val |-> AssumeUtc(r.val)] ELSE TryFormats(value, i + 1)

\* value[:-1] + "+00:00" when value ends with Z
NormalizeZ(value) ==
    IF EndsWith(value, <<"Z">>)
    THEN SubSeq(value, 1, Len(value) - 1) \o <<"+", "0", "0", ":", "0", "0">>
    ELSE value

\* normalized[:-6] + "+00:00" when normalized ends with -00:00
NormalizeMinusZero(normalized) ==
    IF EndsWith(normalized, <<"-", "0", "0", ":", "0", "0">>)
    THEN SubSeq(normalized, 1, Len(normalized) - 6) \o <<"+", "0", "0", ":", "0", "0">>
    ELSE normalized

\* parse_datetime(value, pos): ok with a datetime, or not ok (EDNParseError "Invalid datetime format")
parse_datetime(value) ==
    LET normalized == NormalizeMinusZero(NormalizeZ(value))
        dt == FromIsoFormat(normalized)
    IN  IF dt.ok THEN [ok |-> TRUE, val |-> AssumeUtc(dt.val)]
        ELSE TryFormats(value, 1)

Pad(n, w) == LET ds == NatStr(n) IN Zeros(w - Len(ds)) \o ds

\* dt.isoformat() of an aware datetime / dt.strftime(...) + "Z" of a naive one
IsoBody(dt) ==
    Pad(dt.y, 4) \o <<"-">> \o Pad(dt.mo, 2) \o <<"-">> \o Pad(dt.d, 2) \o <<"T">>
    \o Pad(dt.h, 2) \o <<":">> \o Pad(dt.mi, 2) \o <<":">> \o Pad(dt.sec, 2)
    \o (IF dt.us /= 0 THEN <<".">> \o Pad(dt.us, 6) ELSE <<>>)

IsoOffset(off) ==
    (IF off < 0 THEN <<"-">> ELSE <<"+">>)
    \o Pad(Abs(off) \div 60, 2) \o <<":">> \o Pad(Abs(off) % 60, 2)

HexDigits == Digits \cup {"a", "b", "c", "d", "e", "f"}

Lower(c) ==
    CASE c = "A" -> "a" [] c = "B" -> "b" [] c = "C" -> "c" [] c = "D" -> "d"
      [] c = "E" -> "e" [] c = "F" -> "f" [] OTHER -> c

RECURSIVE Without(_, _)
Without(q, c) ==
    IF q = <<>> THEN <<>>
    ELSE IF Head(q) = c THEN Without(Tail(q), c)
    ELSE <<Head(q)>> \o Without(Tail(q), c)

RECURSIVE StripBraces(_)
StripBraces(q) ==
    IF q /= <<>> /\ Head(q) \in {"{", "}"} THEN StripBraces(Tail(q))
    ELSE IF q /= <<>> /\ q[Len(q)] \in {"{", "}"} THEN StripBraces(SubSeq(q, 1, Len(q) - 1))
    ELSE q

\* uuid.UUID(value): braces and hyphens dropped, then 32 hex digits, else ValueError
PyUUID(value) ==
    LET hex == Without(StripBraces(value), "-")
    IN  IF Len(hex) = 32 /\ \A i \in DOMAIN hex : Lower(hex[i]) \in HexDigits
        THEN [ok |-> TRUE, val |-> UuidV([i \in DOMAIN hex |-> Lower(hex[i])])]
        ELSE NoValue

\* str(u) for a UUID: 8-4-4-4-12
UuidStr(h) ==
    SubSeq(h, 1, 8) \o <<"-">> \o SubSeq(h, 9, 12) \o <<"-">> \o SubSeq(h, 13, 16)
    \o <<"-">> \o SubSeq(h, 17, 20) \o <<"-">> \o SubSeq(h, 21, 32)

----------------------------------------------------------------------------
(* TagRegistry (tags.py): _handlers as a function from tag name to handler name *)

tag_inst == <<"i", "n", "s", "t">>
tag_uuid == <<"u", "u", "i", "d">>
tag_db_fn == <<"d", "b", "/", "f", "n">>
tag_discard == <<"_">>

\* a register that keeps the handler a tag already has
register_keep(handlers, tag, handler) ==
    [x \in DOMAIN handlers \cup {tag} |->
        IF x \in DOMAIN handlers THEN handlers[x] ELSE handler]

register(handlers, tag, handler) ==
    [x \in DOMAIN handlers \cup {tag} |-> IF x = tag THEN handler ELSE handlers[x]]

unregister(handlers, tag) == [x \in DOMAIN handlers \ {tag} |-> handlers[x]]

get_handler(handlers, tag) == IF tag \in DOMAIN handlers THEN handlers[tag] ELSE None

is_known(handlers, tag) == tag \in DOMAIN handlers

known_tags(handlers) == DOMAIN handlers

\* TagRegistry(): _register_defaults on the empty dict
_register_defaults ==
    register(register(register(register(<<>>, tag_inst, "_handle_inst"),
                                tag_uuid, "_handle_uuid"),
                      tag_db_fn, "_handle_db_fn"),
             tag_discard, "_handle_discard")

default_registry == _register_defaults

\* the dict of a new instance (self._handlers = {}): an object of its own
AllocHandlers_shared(h) == 1

AllocHandlers(h) == Len(h) + 1

\* h with dict id holding content
Store(h, id, content) ==
    IF id \in DOMAIN h THEN [h EXCEPT ![id] = content] ELSE Append(h, content)

\* TagRegistry(): the heap after __init__ and the new instance
TagRegistry(h) ==
    LET id == AllocHandlers(h)
    IN  [heap |-> Store(h, id, _register_defaults), self |-> [_handlers |-> id]]

NoTags == [of |-> 0, elems |-> {}, backing |-> None]

\* a known_tags that hands out the keys of the dict itself
KeySet_view(of, id, h) == [of |-> of, elems |-> known_tags(h[id]), backing |-> id]

\* set(self._handlers.keys()) of known_tags: a new set, backed by nothing
KeySet(of, id, h) == [of |-> of, elems |-> known_tags(h[id]), backing |-> None]

\* the state of the registries once the package is imported: default_registry alone
Imported ==
    /\ heap = <<default_registry>>
    /\ regs = <<[_handlers |-> 1]>>
    /\ calls = <<>>
    /\ tags = NoTags
    /\ threads = <<>>
    /\ depths = <<>>

----------------------------------------------------------------------------
(* Outcomes of a call: a return value or a raised exception, with the reader after it *)

\* tag_registry is the dict of the registry the reader holds, as it is at this point of the
\* read; lookups is the history of the get_handler calls of the reader (not a field of the class)
NoReader == [s |-> <<>>, pos |-> 0, length |-> 0, max_depth |-> 0, current_depth |-> 0,
             tag_registry |-> <<>>, lookups |-> <<>>]

Ok(rd, val) ==
    [k |-> "ok", val |-> val, exc |-> "", msg |-> "", at |-> -1, lim |-> -1, ch |-> "", rd |-> rd,
     cause |-> ""]

\* raise exc(msg ...): at is the position in the message, lim the limit, ch the character;
\* cause is the class of __cause__, set by raise ... from
Raise(rd, exc, msg, at, lim, ch) ==
    [k |-> "raise", val |-> NilV, exc |-> exc, msg |-> msg, at |-> at, lim |-> lim, ch |-> ch,
     rd |-> rd, cause |-> ""]

----------------------------------------------------------------------------
(* Tag handlers (tags.py) *)

_handle_inst(rd, value, pos) ==
    IF value.t = "str"
    THEN LET dt == parse_datetime(value.v)
         IN  IF dt.ok THEN Ok(rd, dt.val)
             ELSE Raise(rd, EDNParseError, "Invalid datetime format", pos, -1, "")
    ELSE Ok(rd, value)

_handle_uuid(rd, value, pos) ==
    IF value.t = "str"
    THEN LET u == PyUUID(value.v)
         IN  IF u.ok THEN Ok(rd, u.val)
             ELSE Raise(rd, ValueError, "badly formed hexadecimal UUID string", -1, -1, "")
    ELSE Ok(rd, value)

_handle_db_fn(rd, value, pos) == Ok(rd, value)

_handle_discard(rd, value, pos) == Ok(rd, SKIP)

\* handlers that change the registry the reader holds, then return the value:
\* registry.register("double", double_handler) and registry.unregister("double")
on_handler(rd, value, pos) ==
    Ok([rd EXCEPT !.tag_registry = register(@, <<"d", "o", "u", "b", "l", "e">>, "double_handler")],
       value)

off_handler(rd, value, pos) ==
    Ok([rd EXCEPT !.tag_registry = unregister(@, <<"d", "o", "u", "b", "l", "e">>)], value)

\* double_handler of test_custom_registry_with_loads: value * 2 for an int
double_handler(rd, value, pos) ==
    IF value.t = "int" THEN Ok(rd, IntV(value.v * 2))
    ELSE IF value.t = "bool" THEN Ok(rd, IntV(IF value.v THEN 2 ELSE 0))
    ELSE Ok(rd, value)

\* handler(value, tag_pos)
CallHandler(handler, rd, value, pos) ==
    CASE handler = "_handle_inst" -> _handle_inst(rd, value, pos)
      [] handler = "_handle_uuid" -> _handle_uuid(rd, value, pos)
      [] handler = "_handle_db_fn" -> _handle_db_fn(rd, value, pos)
      [] handler = "_handle_discard" -> _handle_discard(rd, value, pos)
      [] handler = "double_handler" -> double_handler(rd, value, pos)
      [] handler = "on_handler" -> on_handler(rd, value, pos)
      [] handler = "off_handler" -> off_handler(rd, value, pos)

----------------------------------------------------------------------------
(* EdnReader (reader.py) *)

\* EdnReader(s, max_depth, tag_registry)
EdnReader(text, md, registry) ==
    [s |-> text, pos |-> 0, length |-> Len(text), max_depth |-> md, current_depth |-> 0,
     tag_registry |-> registry, lookups |-> <<>>]

\* the character peek() and read() return
peek(rd) == IF rd.pos >= rd.length THEN None ELSE rd.s[rd.pos + 1]

\* a read() that moves the cursor at the end of the input too
read_unchecked(rd) == [rd EXCEPT !.pos = @ + 1]

\* the reader after read()
read(rd) == IF rd.pos >= rd.length THEN rd ELSE [rd EXCEPT !.pos = @ + 1]

\* the inner loop of skip_whitespace_and_comments: to the end of the line
RECURSIVE SkipComment(_)
SkipComment(rd) ==
    IF rd.pos < rd.length /\ rd.s[rd.pos + 1] /= "\n"
    THEN SkipComment([rd EXCEPT !.pos = @ + 1])
    ELSE rd

RECURSIVE skip_whitespace_and_comments(_)
skip_whitespace_and_comments(rd) ==
    IF rd.pos < rd.length
    THEN LET c == rd.s[rd.pos + 1]
         IN  IF c \in Whitespace THEN skip_whitespace_and_comments([rd EXCEPT !.pos = @ + 1])
             ELSE IF c = ";"
                  THEN LET r1 == SkipComment(rd)
                       IN  skip_whitespace_and_comments(
                               IF r1.pos < r1.length THEN [r1 EXCEPT !.pos = @ + 1] ELSE r1)
             ELSE rd
    ELSE rd

Unescape(escape) ==
    CASE escape = "n" -> "\n"
      [] escape = "t" -> "\t"
      [] escape = "r" -> "\r"
      [] OTHER -> escape

\* the while loop of _read_string
RECURSIVE StringLoop(_, _, _)
StringLoop(rd, start_pos, chars) ==
    LET c == peek(rd)
        r1 == read(rd)
    IN  IF c = None THEN Raise(r1, EDNParseError, "Unterminated string", start_pos, -1, "")
        ELSE IF c = "\"" THEN Ok(r1, StrV(chars))
        ELSE IF c = "\\"
             THEN StringLoop(read(r1), start_pos, Append(chars, Unescape(peek(r1))))
        ELSE StringLoop(r1, start_pos, Append(chars, c))

\* a reader that reports a string by the offset after its opening quote
_read_string_after_quote(rd) == StringLoop(rd, rd.pos, <<>>)

_read_string(rd) == StringLoop(rd, rd.pos - 1, <<>>)

\* read_symbol_or_keyword(first_char), first the characters already taken: the reader and the word
RECURSIVE read_symbol_or_keyword(_, _)
read_symbol_or_keyword(rd, first) ==
    IF rd.pos < rd.length /\ rd.s[rd.pos + 1] \notin Delimiters
    THEN read_symbol_or_keyword([rd EXCEPT !.pos = @ + 1], Append(first, rd.s[rd.pos + 1]))
    ELSE [rd |-> rd, word |-> first]

\* the end of read_number: float(num_str) or int(num_str)
NumberValue(rd, num_str) ==
    IF "." \in Range(num_str) \/ "e" \in Range(num_str) \/ "E" \in Range(num_str)
    THEN LET f == PyFloat(num_str)
         IN  IF f.ok THEN Ok(rd, f.val)
             ELSE Raise(rd, ValueError, "could not convert string to float", -1, -1, "")
    ELSE LET n == PyInt(num_str)
         IN  IF n.ok THEN Ok(rd, n.val)
             ELSE Raise(rd, ValueError, "invalid literal for int()", -1, -1, "")

\* the while loop of read_number
RECURSIVE NumberLoop(_, _, _, _)
NumberLoop(rd, start_pos, chars, has_decimal) ==
    IF rd.pos < rd.length
    THEN LET c == rd.s[rd.pos + 1]
         IN  IF c = "."
             THEN IF has_decimal
                  THEN Raise(rd, EDNParseError, "Invalid number: multiple decimal points",
                             start_pos, -1, "")
                  ELSE NumberLoop([rd EXCEPT !.pos = @ + 1], start_pos, Append(chars, c), TRUE)
             ELSE IF c \in Digits \/ c \in {"-", "+", "e", "E"}
                  THEN NumberLoop([rd EXCEPT !.pos = @ + 1], start_pos, Append(chars, c),
                                  has_decimal)
             ELSE NumberValue(rd, chars)
    ELSE NumberValue(rd, chars)

\* read_number(first_char), called with first_char consumed
read_number(rd, first_char) == NumberLoop(rd, rd.pos - 1, <<first_char>>, first_char = ".")

\* NAMED_CHARS (types.py), in the order of the dict
NAMED_CHARS ==
    << <<<<"n", "e", "w", "l", "i", "n", "e">>, "\n">>,
       <<<<"s", "p", "a", "c", "e">>, " ">>,
       <<<<"t", "a", "b">>, "\t">>,
       <<<<"r", "e", "t", "u", "r", "n">>, "\r">> >>

\* a _read_char loop that takes a name whatever follows it
RECURSIVE NamedCharLoop_prefix(_, _)
NamedCharLoop_prefix(rd, i) ==
    IF i > Len(NAMED_CHARS) THEN Ok(read(rd), StrV(<<peek(rd)>>))
    ELSE IF StartsWith(Rest(rd.s, rd.pos), NAMED_CHARS[i][1])
         THEN Ok([rd EXCEPT !.pos = @ + Len(NAMED_CHARS[i][1])], StrV(<<NAMED_CHARS[i][2]>>))
         ELSE NamedCharLoop_prefix(rd, i + 1)

\* the for loop of _read_char over NAMED_CHARS from entry i, then the single character
RECURSIVE NamedCharLoop(_, _)
NamedCharLoop(rd, i) ==
    IF i > Len(NAMED_CHARS) THEN Ok(read(rd), StrV(<<peek(rd)>>))
    ELSE LET name == NAMED_CHARS[i][1]
             end_pos == rd.pos + Len(name)
         IN  IF /\ StartsWith(Rest(rd.s, rd.pos), name)
                /\ (end_pos >= rd.length \/ rd.s[end_pos + 1] \in Delimiters)
             THEN Ok([rd EXCEPT !.pos = @ + Len(name)], StrV(<<NAMED_CHARS[i][2]>>))
             ELSE NamedCharLoop(rd, i + 1)

_read_char(rd) ==
    IF rd.pos >= rd.length
    THEN Raise(rd, EDNParseError, "Unexpected end of input reading character", rd.pos - 1, -1, "")
    ELSE NamedCharLoop(rd, 1)

_read_keyword(rd) ==
    LET w == read_symbol_or_keyword(rd, <<":">>) IN Ok(w.rd, StrV(w.word))

\* the finally clause of _read_collection and _read_map
Finally(o) == [o EXCEPT !.rd.current_depth = @ - 1]

\* a set branch that always takes the except path
SetOrTuple_tuple(items) == TupleV(items)

\* frozenset(items), or tuple(items) on TypeError
SetOrTuple(items) ==
    IF \A i \in DOMAIN items : Hashable(items[i])
    THEN SetV(Dedup(items, <<>>))
    ELSE TupleV(items)

RECURSIVE read_value(_)
RECURSIVE CollectionLoop(_, _, _, _)
RECURSIVE MapLoop(_, _, _)
RECURSIVE _read_dispatch(_)

\* the while loop of _read_collection
CollectionLoop(rd, end_char, start_pos, items) ==
    LET r1 == skip_whitespace_and_comments(rd)
        c == peek(r1)
    IN  IF c = None
        THEN Raise(r1, EDNParseError, "Unterminated collection", start_pos, -1, end_char)
        ELSE IF c = end_char THEN Ok(read(r1), ListV(items))
        ELSE LET o == read_value(r1)
             IN  IF o.k = "raise" THEN o
                 ELSE CollectionLoop(o.rd, end_char, start_pos,
                                     IF o.val /= SKIP THEN Append(items, o.val) ELSE items)

_read_collection(rd, end_char) ==
    LET start_pos == rd.pos - 1
        r1 == [rd EXCEPT !.current_depth = @ + 1]
    IN  IF r1.current_depth > r1.max_depth
        THEN Raise(r1, EDNParseError, "Maximum nesting depth exceeded", start_pos,
                   r1.max_depth, "")
        ELSE Finally(CollectionLoop(r1, end_char, start_pos, <<>>))

\* tuple(self._read_collection(end_char))
ReadTuple(rd, end_char) ==
    LET o == _read_collection(rd, end_char)
    IN  IF o.k = "raise" THEN o ELSE Ok(o.rd, TupleV(o.val.v))

_read_vector(rd) == ReadTuple(rd, "]")

_read_list(rd) == ReadTuple(rd, ")")

\* a _read_map loop that drops a Skip key without reading the value behind it
MapLoop_key_only(rd, start_pos, result) ==
    LET r1 == skip_whitespace_and_comments(rd)
        c == peek(r1)
    IN  IF c = None THEN Raise(r1, EDNParseError, "Unterminated map", start_pos, -1, "")
        ELSE IF c = "}" THEN Ok(read(r1), DictV(result))
        ELSE LET key == read_value(r1)
             IN  IF key.k = "raise" THEN key
                 ELSE IF key.val = SKIP THEN MapLoop(key.rd, start_pos, result)
                 ELSE LET value == read_value(skip_whitespace_and_comments(key.rd))
                      IN  IF value.k = "raise" THEN value
                          ELSE IF value.val = SKIP THEN MapLoop(value.rd, start_pos, result)
                          ELSE IF Hashable(key.val)
                               THEN MapLoop(value.rd, start_pos,
                                            DictSet(result, key.val, value.val))
                               ELSE Raise(value.rd, TypeError, "unhashable type", -1, -1, "")

\* the while loop of _read_map
MapLoop(rd, start_pos, result) ==
    LET r1 == skip_whitespace_and_comments(rd)
        c == peek(r1)
    IN  IF c = None THEN Raise(r1, EDNParseError, "Unterminated map", start_pos, -1, "")
        ELSE IF c = "}" THEN Ok(read(r1), DictV(result))
        ELSE LET key == read_value(r1)
             IN  IF key.k = "raise" THEN key
                 ELSE LET value == read_value(skip_whitespace_and_comments(key.rd))
                      IN  IF value.k = "raise" THEN value
                          ELSE IF key.val /= SKIP /\ value.val /= SKIP
                               THEN IF Hashable(key.val)
                                    THEN MapLoop(value.rd, start_pos,
                                                 DictSet(result, key.val, value.val))
                                    ELSE Raise(value.rd, TypeError, "unhashable type", -1, -1, "")
                          ELSE MapLoop(value.rd, start_pos, result)

_read_map(rd) ==
    LET start_pos == rd.pos - 1
        r1 == [rd EXCEPT !.current_depth = @ + 1]
    IN  IF r1.current_depth > r1.max_depth
        THEN Raise(r1, EDNParseError, "Maximum nesting depth exceeded", start_pos,
                   r1.max_depth, "")
        ELSE Finally(MapLoop(r1, start_pos, <<>>))

\* the reader after self._tag_registry.get_handler(tag)
Looked(rd, tag) == [rd EXCEPT !.lookups = Append(@, [tag |-> tag, pos |-> rd.pos])]

\* a _read_tagged that leaves the payload of an unknown tag unread
_read_tagged_keep_payload(rd, tag, tag_pos) ==
    IF get_handler(rd.tag_registry, tag) = None THEN Ok(Looked(rd, tag), SKIP)
    ELSE LET value == read_value(skip_whitespace_and_comments(rd))
         IN  IF value.k = "raise" THEN value
             ELSE CallHandler(get_handler(value.rd.tag_registry, tag), Looked(value.rd, tag),
                              value.val, tag_pos)

\* a _read_tagged that gets the handler before it reads the payload
_read_tagged_lookup_first(rd, tag, tag_pos) ==
    LET handler == get_handler(rd.tag_registry, tag)
        value == read_value(skip_whitespace_and_comments(Looked(rd, tag)))
    IN  IF value.k = "raise" THEN value
        ELSE IF handler /= None THEN CallHandler(handler, value.rd, value.val, tag_pos)
        ELSE Ok(value.rd, SKIP)

_read_tagged(rd, tag, tag_pos) ==
    LET value == read_value(skip_whitespace_and_comments(rd))
    IN  IF value.k = "raise" THEN value
        ELSE LET handler == get_handler(value.rd.tag_registry, tag)
             IN  IF handler /= None
                 THEN CallHandler(handler, Looked(value.rd, tag), value.val, tag_pos)
                 ELSE Ok(Looked(value.rd, tag), SKIP)

\* the set branch of _read_dispatch, after the { is consumed
ReadSet(rd) ==
    LET o == _read_collection(rd, "}")
    IN  IF o.k = "raise" THEN o ELSE Ok(o.rd, SetOrTuple(o.val.v))

\* a discard that drops a value that fails to read and goes on behind the failure
ReadDiscard_lenient(rd) ==
    LET dropped == read_value(skip_whitespace_and_comments(rd))
    IN  read_value(dropped.rd)

\* the discard branch of _read_dispatch, after the _ is consumed
ReadDiscard(rd) ==
    LET dropped == read_value(skip_whitespace_and_comments(rd))
    IN  IF dropped.k = "raise" THEN dropped ELSE read_value(dropped.rd)

\* a dispatch that has no discard branch: _ is a tag like any other
_read_dispatch_tag_first(rd) ==
    LET dispatch_pos == rd.pos - 1
        next_c == peek(rd)
    IN  IF next_c = "{" THEN ReadSet(read(rd))
        ELSE LET tag == read_symbol_or_keyword(rd, <<>>)
             IN  _read_tagged(tag.rd, tag.word, dispatch_pos)

_read_dispatch(rd) ==
    LET dispatch_pos == rd.pos - 1
        next_c == peek(rd)
    IN  IF next_c = "{" THEN ReadSet(read(rd))
        ELSE IF next_c = "_" THEN ReadDiscard(read(rd))
        ELSE LET tag == read_symbol_or_keyword(rd, <<>>)
             IN  _read_tagged(tag.rd, tag.word, dispatch_pos)

\* the t/f/n branch of read_value
Bareword(rd, word) ==
    IF word = <<"t", "r", "u", "e">> THEN Ok(rd, BoolV(TRUE))
    ELSE IF word = <<"f", "a", "l", "s", "e">> THEN Ok(rd, BoolV(FALSE))
    ELSE IF word = <<"n", "i", "l">> THEN Ok(rd, NilV)
    ELSE Ok(rd, StrV(word))

read_value(rd0) ==
    LET rd == skip_whitespace_and_comments(rd0)
        c == peek(rd)
    IN  IF c = None THEN Ok(rd, NilV)
        ELSE IF c = "\"" THEN _read_string(read(rd))
        ELSE IF c = "[" THEN _read_vector(read(rd))
        ELSE IF c = "(" THEN _read_list(read(rd))
        ELSE IF c = "{" THEN _read_map(read(rd))
        ELSE IF c = "#" THEN _read_dispatch(read(rd))
        ELSE IF c = "\\" THEN _read_char(read(rd))
        ELSE IF c = ":" THEN _read_keyword(read(rd))
        ELSE IF \/ c \in Digits
                \/ /\ c \in {"-", "+"}
                   /\ rd.pos + 1 < rd.length
                   /\ (rd.s[rd.pos + 2] \in Digits \/ rd.s[rd.pos + 2] = ".")
             THEN read_number(read(rd), c)
        ELSE IF c = "." THEN read_number(read(rd), c)
        ELSE IF c \in {"t", "f", "n"}
             THEN LET w == read_symbol_or_keyword(read(rd), <<c>>) IN Bareword(w.rd, w.word)
        ELSE IF c \notin NotSymbolStart
             THEN LET w == read_symbol_or_keyword(read(rd), <<c>>) IN Ok(w.rd, StrV(w.word))
        ELSE Raise(rd, EDNParseError, "Unexpected character", rd.pos, -1, c)

\* a loads that looks at what follows the value and rejects anything but separators
loads_whole(text, md, registry) ==
    LET o == read_value(EdnReader(text, md, registry))
        r1 == skip_whitespace_and_comments(o.rd)
    IN  IF o.k = "ok" /\ r1.pos < r1.length
        THEN Raise(r1, EDNParseError, "Unexpected character", r1.pos, -1, peek(r1))
        ELSE o

\* loads(s, max_depth, tag_registry) of edn/__init__.py, for text input
loads(text, md, registry) == read_value(EdnReader(text, md, registry))

\* chr of the code points the byte strings drawn can encode
Chr(cp) ==
    CASE cp = 32 -> " " [] cp = 34 -> "\"" [] cp = 49 -> "1" [] cp = 91 -> "[" [] cp = 93 -> "]"
      [] cp = 192 -> "À" [] cp = 233 -> "é"

\* s.decode("utf-8"), for one-byte and two-byte sequences: ok is FALSE for UnicodeDecodeError
RECURSIVE decode(_)
decode(b) ==
    IF b = <<>> THEN [ok |-> TRUE, text |-> <<>>]
    ELSE LET rest == IF b[1] < 128 THEN decode(Tail(b))
                     ELSE IF b[1] \in 194..223 /\ Len(b) >= 2 /\ b[2] \in 128..191
                          THEN decode(Tail(Tail(b)))
                     ELSE [ok |-> FALSE, text |-> <<>>]
             c == IF b[1] < 128 THEN Chr(b[1]) ELSE Chr((b[1] - 192) * 64 + (b[2] - 128))
         IN  IF rest.ok THEN [ok |-> TRUE, text |-> <<c>> \o rest.text] ELSE rest

\* loads(s, max_depth, tag_registry) with s of type bytes
loads_bytes(b, md, registry) ==
    LET d == decode(b)
    IN  IF d.ok THEN loads(d.text, md, registry)
        ELSE [Raise(NoReader, EDNParseError, "Invalid UTF-8 encoding", -1, -1, "")
                 EXCEPT !.cause = "UnicodeDecodeError"]

----------------------------------------------------------------------------
(* The reader step by step: one read as a thread that other reads interleave with.
   A thread is the reader, the activations of _read_collection and _read_map that are open
   (frames, innermost last), the value a read_value has just returned to the innermost of
   them (got) and the outcome of the outermost read_value, once it has one. *)

\* a reader class that keeps _current_depth on the class
DepthOwner_shared(i) == 1

\* the object that holds the _current_depth of reader i: the reader itself
DepthOwner(i) == i

\* an exception leaves every open activation through its finally
Fail(th, o) ==
    [th EXCEPT !.rd = [o.rd EXCEPT !.current_depth = @ - Len(th.frames)],
               !.frames = <<>>,
               !.out = o]

\* the value a read_value has returned, not yet used by its caller
Got(value) == [has |-> TRUE, val |-> value]
NotGot == [has |-> FALSE, val |-> NilV]

\* what the caller of a finished read_value does with value
Deliver(th, value) ==
    IF th.frames = <<>> THEN [th EXCEPT !.out = Ok(th.rd, value)]
    ELSE LET n == Len(th.frames)
             f == th.frames[n]
         IN  IF f.kind /= "map"
             THEN IF value /= SKIP
                  THEN [th EXCEPT !.frames[n].items = Append(@, value)]
                  ELSE th
             ELSE IF ~f.has_key
             THEN [th EXCEPT !.frames[n].has_key = TRUE, !.frames[n].key = value]
             ELSE IF f.key /= SKIP /\ value /= SKIP
             THEN IF Hashable(f.key)
                  THEN [th EXCEPT !.frames[n].has_key = FALSE,
                                  !.frames[n].items = DictSet(@, f.key, value)]
                  ELSE Fail(th, Raise(th.rd, TypeError, "unhashable type", -1, -1, ""))
             ELSE [th EXCEPT !.frames[n].has_key = FALSE]

\* the head of _read_collection and _read_map, the opening delimiter consumed
Enter(th, rd, kind, end_char) ==
    LET start_pos == rd.pos - 1
        r1 == [rd EXCEPT !.current_depth = @ + 1]
    IN  IF r1.current_depth > r1.max_depth
        THEN Fail(th, Raise(r1, EDNParseError, "Maximum nesting depth exceeded", start_pos,
                            r1.max_depth, ""))
        ELSE [th EXCEPT !.rd = r1,
                        !.frames = Append(@, [kind |-> kind, end_char |-> end_char,
                                              start_pos |-> start_pos, items |-> <<>>,
                                              has_key |-> FALSE, key |-> NilV])]

\* read_value up to the next collection it opens; a form that opens none is read whole
ReadValueStep(th) ==
    LET rd == skip_whitespace_and_comments(th.rd)
        c == peek(rd)
    IN  IF c = "[" THEN Enter(th, read(rd), "tuple", "]")
        ELSE IF c = "(" THEN Enter(th, read(rd), "tuple", ")")
        ELSE IF c = "{" THEN Enter(th, read(rd), "map", "}")
        ELSE IF c = "#" /\ peek(read(rd)) = "{" THEN Enter(th, read(read(rd)), "set", "}")
        ELSE CHOOSE next \in { IF o.k = "raise" THEN Fail(th, o)
                                ELSE [th EXCEPT !.rd = o.rd, !.got = Got(o.val)] :
                                o \in {read_value(rd)} } : TRUE

\* one turn of the while loop of the innermost open _read_collection or _read_map
LoopStep(th) ==
    LET n == Len(th.frames)
        f == th.frames[n]
        r1 == skip_whitespace_and_comments(th.rd)
        c == peek(r1)
    IN  IF (f.kind = "map" /\ f.has_key) \/ (c /= None /\ c /= f.end_char)
        THEN ReadValueStep(th)
        ELSE IF c = None
        THEN Fail(th, IF f.kind = "map"
                      THEN Raise(r1, EDNParseError, "Unterminated map", f.start_pos, -1, "")
                      ELSE Raise(r1, EDNParseError, "Unterminated collection", f.start_pos, -1,
                                 f.end_char))
        ELSE [th EXCEPT !.rd = [read(r1) EXCEPT !.current_depth = @ - 1],
                        !.frames = SubSeq(@, 1, n - 1),
                        !.got = Got(CASE f.kind = "tuple" -> TupleV(f.items)
                                      [] f.kind = "set" -> SetOrTuple(f.items)
                                      [] f.kind = "map" -> DictV(f.items))]

\* the next step of a read in progress
ThreadStep(th) ==
    IF th.got.has THEN Deliver([th EXCEPT !.got = NotGot], th.got.val)
    ELSE IF th.frames = <<>> THEN ReadValueStep(th)
    ELSE LoopStep(th)

----------------------------------------------------------------------------
(* The reader turn by turn: one read as the stack of its calls in progress (innermost last),
   each with the locals of its loop. A step is one turn of the innermost while loop, or the
   call, the return or the raise the innermost call makes next. ret is the value the call
   that has just returned gave the innermost one; out is the outcome of the outermost
   read_value, once it has one. turn_pos is the cursor at the start of the turn a loop is in. *)

Frame(kind) ==
    [kind |-> kind, stage |-> 0, start_pos |-> -1, end_char |-> "", coll |-> "", items |-> <<>>,
     key |-> NilV, chars |-> <<>>, has_decimal |-> FALSE, use |-> "", turn_pos |-> -1]

\* the innermost call goes on, with the reader rd and the locals f
Become(th, rd, f) == [th EXCEPT !.rd = rd, !.stack[Len(th.stack)] = f, !.ret = NotGot]

\* the innermost call, its locals now f, calls callee
Invoke(th, f, callee) ==
    [th EXCEPT !.stack = Append([@ EXCEPT ![Len(@)] = f], callee), !.ret = NotGot]

\* the innermost call returns value
Return(th, rd, value) ==
    IF Len(th.stack) = 1
    THEN [th EXCEPT !.rd = rd, !.stack = <<>>, !.ret = NotGot, !.out = Ok(rd, value)]
    ELSE [th EXCEPT !.rd = rd, !.stack = SubSeq(@, 1, Len(@) - 1), !.ret = Got(value)]

\* the innermost call raises: every open _read_collection and _read_map is left through
\* its finally
Throw(th, o) ==
    LET open == {i \in DOMAIN th.stack : th.stack[i].kind \in {"collection", "map"}}
    IN  [th EXCEPT !.rd = [o.rd EXCEPT !.current_depth = @ - Cardinality(open)],
                   !.stack = <<>>,
                   !.ret = NotGot,
                   !.out = o]

\* a comment loop that stops in front of the text of the comment
CommentTurn_stay(th, f) ==
    LET rd == th.rd
    IN  IF rd.pos < rd.length /\ rd.s[rd.pos + 1] = "\n"
        THEN Return(th, [rd EXCEPT !.pos = @ + 1], NilV)
        ELSE Return(th, rd, NilV)

\* one turn of the inner loop of skip_whitespace_and_comments; the newline is skipped on the
\* way out
CommentTurn(th, f) ==
    LET rd == th.rd
    IN  IF rd.pos < rd.length /\ rd.s[rd.pos + 1] /= "\n"
        THEN Become(th, [rd EXCEPT !.pos = @ + 1], f)
        ELSE Return(th, IF rd.pos < rd.length THEN [rd EXCEPT !.pos = @ + 1] ELSE rd, NilV)

\* one turn of the while loop of skip_whitespace_and_comments; a turn on a comment runs the
\* inner loop
SkipTurn(th, f) ==
    LET rd == th.rd
    IN  IF rd.pos < rd.length
        THEN LET c == rd.s[rd.pos + 1]
             IN  IF c \in Whitespace THEN Become(th, [rd EXCEPT !.pos = @ + 1], f)
                 ELSE IF c = ";"
                      THEN Invoke(th, [f EXCEPT !.turn_pos = rd.pos], Frame("comment"))
                 ELSE Return(th, rd, NilV)
        ELSE Return(th, rd, NilV)

\* one turn of the while loop of _read_string
StringTurn(th, f) ==
    LET c == peek(th.rd)
        r1 == read(th.rd)
    IN  IF c = None
        THEN Throw(th, Raise(r1, EDNParseError, "Unterminated string", f.start_pos, -1, ""))
        ELSE IF c = "\"" THEN Return(th, r1, StrV(f.chars))
        ELSE IF c = "\\"
             THEN Become(th, read(r1), [f EXCEPT !.chars = Append(@, Unescape(peek(r1)))])
        ELSE Become(th, r1, [f EXCEPT !.chars = Append(@, c)])

\* one turn of the while loop of read_symbol_or_keyword; the word goes to the caller:
\* _read_keyword, the t/f/n and symbol branches of read_value, or the tag branch of
\* _read_dispatch, which goes on as _read_tagged
SymbolTurn(th, f) ==
    LET rd == th.rd
    IN  IF rd.pos < rd.length /\ rd.s[rd.pos + 1] \notin Delimiters
        THEN Become(th, [rd EXCEPT !.pos = @ + 1], [f EXCEPT !.chars = Append(@, rd.s[rd.pos + 1])])
        ELSE IF f.use = "tag"
             THEN Become(th, rd, [Frame("tagged") EXCEPT !.chars = f.chars,
                                                         !.start_pos = f.start_pos])
        ELSE IF f.use = "bareword" THEN Return(th, rd, Bareword(rd, f.chars).val)
        ELSE Return(th, rd, StrV(f.chars))

\* one turn of the while loop of read_number, or the conversion behind it
NumberTurn(th, f) ==
    LET rd == th.rd
        c == peek(rd)
        o == NumberValue(rd, f.chars)
    IN  IF c = "."
        THEN IF f.has_decimal
             THEN Throw(th, Raise(rd, EDNParseError, "Invalid number: multiple decimal points",
                                  f.start_pos, -1, ""))
             ELSE Become(th, [rd EXCEPT !.pos = @ + 1],
                         [f EXCEPT !.chars = Append(@, c), !.has_decimal = TRUE])
        ELSE IF c /= None /\ (c \in Digits \/ c \in {"-", "+", "e", "E"})
             THEN Become(th, [rd EXCEPT !.pos = @ + 1], [f EXCEPT !.chars = Append(@, c)])
        ELSE IF o.k = "raise" THEN Throw(th, o)
        ELSE Return(th, o.rd, o.val)

\* the head of _read_collection and _read_map, the opening delimiter consumed
EnterTurn(th, rd, coll, end_char) ==
    LET start_pos == rd.pos - 1
        r1 == [rd EXCEPT !.current_depth = @ + 1]
    IN  IF r1.current_depth > r1.max_depth
        THEN Throw(th, Raise(r1, EDNParseError, "Maximum nesting depth exceeded", start_pos,
                             r1.max_depth, ""))
        ELSE Become(th, r1, [Frame(IF coll = "map" THEN "map" ELSE "collection")
                                EXCEPT !.coll = coll, !.end_char = end_char,
                                       !.start_pos = start_pos])

\* one turn of the while loop of _read_collection, in three steps: the skip, the peek with
\* the call of read_value, the append
CollectionTurn(th, f) ==
    LET rd == th.rd
        c == peek(rd)
    IN  IF f.stage = 0
        THEN Invoke(th, [f EXCEPT !.stage = 1, !.turn_pos = rd.pos], Frame("skip"))
        ELSE IF f.stage = 2
        THEN Become(th, rd, [f EXCEPT !.stage = 0,
                                      !.items = IF th.ret.val /= SKIP THEN Append(@, th.ret.val)
                                                ELSE @])
        ELSE IF c = None
        THEN Throw(th, Raise(rd, EDNParseError, "Unterminated collection", f.start_pos, -1,
                             f.end_char))
        ELSE IF c = f.end_char
        THEN Return(th, [read(rd) EXCEPT !.current_depth = @ - 1],
                    IF f.coll = "set" THEN SetOrTuple(f.items) ELSE TupleV(f.items))
        ELSE Invoke(th, [f EXCEPT !.stage = 2], Frame("read_value"))

\* one turn of the while loop of _read_map, in five steps: the skip, the peek with the read
\* of the key, the skip behind the key, the read of the value, the store
MapTurn(th, f) ==
    LET rd == th.rd
        c == peek(rd)
    IN  CASE f.stage = 0 ->
               Invoke(th, [f EXCEPT !.stage = 1, !.turn_pos = rd.pos], Frame("skip"))
          [] f.stage = 1 ->
               IF c = None
               THEN Throw(th, Raise(rd, EDNParseError, "Unterminated map", f.start_pos, -1, ""))
               ELSE IF c = "}"
               THEN Return(th, [read(rd) EXCEPT !.current_depth = @ - 1], DictV(f.items))
               ELSE Invoke(th, [f EXCEPT !.stage = 2], Frame("read_value"))
          [] f.stage = 2 ->
               Invoke(th, [f EXCEPT !.stage = 3, !.key = th.ret.val], Frame("skip"))
          [] f.stage = 3 ->
               Invoke(th, [f EXCEPT !.stage = 4], Frame("read_value"))
          [] f.stage = 4 ->
               IF f.key /= SKIP /\ th.ret.val /= SKIP
               THEN IF Hashable(f.key)
                    THEN Become(th, rd, [f EXCEPT !.stage = 0,
                                                  !.items = DictSet(@, f.key, th.ret.val)])
                    ELSE Throw(th, Raise(rd, TypeError, "unhashable type", -1, -1, ""))
               ELSE Become(th, rd, [f EXCEPT !.stage = 0])

\* the discard branch of _read_dispatch, the _ consumed: the skip, the read of the form to
\* drop, then the read of the value to return
DiscardTurn(th, f) ==
    CASE f.stage = 0 -> Invoke(th, [f EXCEPT !.stage = 1], Frame("skip"))
      [] f.stage = 1 -> Invoke(th, [f EXCEPT !.stage = 2], Frame("read_value"))
      [] f.stage = 2 -> Become(th, th.rd, Frame("read_value"))

\* _read_tagged: the skip, the read of the payload, then the handler
TaggedTurn(th, f) ==
    LET rd == Looked(th.rd, f.chars)
        handler == get_handler(th.rd.tag_registry, f.chars)
        o == CallHandler(handler, rd, th.ret.val, f.start_pos)
    IN  CASE f.stage = 0 -> Invoke(th, [f EXCEPT !.stage = 1], Frame("skip"))
          [] f.stage = 1 -> Invoke(th, [f EXCEPT !.stage = 2], Frame("read_value"))
          [] f.stage = 2 ->
               IF handler = None THEN Return(th, rd, SKIP)
               ELSE IF o.k = "raise" THEN Throw(th, o)
               ELSE Return(th, o.rd, o.val)

\* read_value: the skip, then the branch on the character under the cursor; the reader the
\* branch calls takes the place of read_value, whose caller gets what it returns
ReadValueTurn(th, f) ==
    LET rd == th.rd
        c == peek(rd)
        r1 == read(rd)
        next_c == peek(r1)
        ch == _read_char(r1)
    IN  IF f.stage = 0 THEN Invoke(th, [f EXCEPT !.stage = 1], Frame("skip"))
        ELSE IF c = None THEN Return(th, rd, NilV)
        ELSE IF c = "\"" THEN Become(th, r1, [Frame("string") EXCEPT !.start_pos = r1.pos - 1])
        ELSE IF c = "[" THEN EnterTurn(th, r1, "tuple", "]")
        ELSE IF c = "(" THEN EnterTurn(th, r1, "tuple", ")")
        ELSE IF c = "{" THEN EnterTurn(th, r1, "map", "}")
        ELSE IF c = "#"
             THEN IF next_c = "{" THEN EnterTurn(th, read(r1), "set", "}")
                  ELSE IF next_c = "_" THEN Become(th, read(r1), Frame("discard"))
                  ELSE Become(th, r1, [Frame("symbol") EXCEPT !.use = "tag",
                                                              !.start_pos = r1.pos - 1])
        ELSE IF c = "\\"
             THEN IF ch.k = "raise" THEN Throw(th, ch) ELSE Return(th, ch.rd, ch.val)
        ELSE IF c = ":"
             THEN Become(th, r1, [Frame("symbol") EXCEPT !.use = "keyword", !.chars = <<":">>])
        ELSE IF \/ c \in Digits
                \/ /\ c \in {"-", "+"}
                   /\ rd.pos + 1 < rd.length
                   /\ (rd.s[rd.pos + 2] \in Digits \/ rd.s[rd.pos + 2] = ".")
             THEN Become(th, r1, [Frame("number") EXCEPT !.chars = <<c>>,
                                                         !.start_pos = r1.pos - 1])
        ELSE IF c = "."
             THEN Become(th, r1, [Frame("number") EXCEPT !.chars = <<c>>, !.has_decimal = TRUE,
                                                         !.start_pos = r1.pos - 1])
        ELSE IF c \in {"t", "f", "n"}
             THEN Become(th, r1, [Frame("symbol") EXCEPT !.use = "bareword", !.chars = <<c>>])
        ELSE IF c \notin NotSymbolStart
             THEN Become(th, r1, [Frame("symbol") EXCEPT !.use = "symbol", !.chars = <<c>>])
        ELSE Throw(th, Raise(rd, EDNParseError, "Unexpected character", rd.pos, -1, c))

\* the next step of the innermost call
Turn(th) ==
    LET f == th.stack[Len(th.stack)]
    IN  CASE f.kind = "read_value" -> ReadValueTurn(th, f)
          [] f.kind = "skip" -> SkipTurn(th, f)
          [] f.kind = "comment" -> CommentTurn(th, f)
          [] f.kind = "string" -> StringTurn(th, f)
          [] f.kind = "symbol" -> SymbolTurn(th, f)
          [] f.kind = "number" -> NumberTurn(th, f)
          [] f.kind = "collection" -> CollectionTurn(th, f)
          [] f.kind = "map" -> MapTurn(th, f)
          [] f.kind = "discard" -> DiscardTurn(th, f)
          [] f.kind = "tagged" -> TaggedTurn(th, f)

----------------------------------------------------------------------------
(* Writer (writer.py) *)

\* s.replace(old, new) for a one-character old
RECURSIVE Replace(_, _, _)
Replace(q, old, new) ==
    IF q = <<>> THEN <<>>
    ELSE (IF Head(q) = old THEN new ELSE <<Head(q)>>) \o Replace(Tail(q), old, new)

\* a _serialize_string without the escapes
_serialize_string_raw(q) == <<"\"">> \o q \o <<"\"">>

\* a _serialize_string that escapes the backslash after the other characters
_serialize_string_backslash_last(q) ==
    LET e1 == Replace(q, "\"", <<"\\", "\"">>)
        e2 == Replace(e1, "\n", <<"\\", "n">>)
        e3 == Replace(e2, "\r", <<"\\", "r">>)
        e4 == Replace(e3, "\t", <<"\\", "t">>)
        e5 == Replace(e4, "\\", <<"\\", "\\">>)
    IN  <<"\"">> \o e5 \o <<"\"">>

_serialize_string(q) ==
    LET e1 == Replace(q, "\\", <<"\\", "\\">>)
        e2 == Replace(e1, "\"", <<"\\", "\"">>)
        e3 == Replace(e2, "\n", <<"\\", "n">>)
        e4 == Replace(e3, "\r", <<"\\", "r">>)
        e5 == Replace(e4, "\t", <<"\\", "t">>)
    IN  <<"\"">> \o e5 \o <<"\"">>

_serialize_datetime(dt) ==
    <<"#", "i", "n", "s", "t", " ", "\"">>
    \o (IF dt.aware THEN IsoBody(dt) \o IsoOffset(dt.off) ELSE IsoBody(dt) \o <<"Z">>)
    \o <<"\"">>

Written(text) == [ok |-> TRUE, text |-> text, type |-> ""]

\* a writer that falls back to the text of the value
CannotSerialize_str(type) == Written(<<"<", type, ">">>)

\* raise EDNParseError(f"Cannot serialize type {type(obj).__name__} to EDN")
CannotSerialize(type) == [ok |-> FALSE, text |-> <<>>, type |-> type]

\* the first failure among parts, or the parts joined by a space between open and close
Joined(parts, open, close) ==
    IF \E i \in DOMAIN parts : ~parts[i].ok
    THEN parts[CHOOSE i \in DOMAIN parts :
                   ~parts[i].ok /\ \A j \in DOMAIN parts : ~parts[j].ok => i <= j]
    ELSE Written(open \o Join(<<" ">>, [i \in DOMAIN parts |-> parts[i].text]) \o close)

RECURSIVE _serialize(_)

_serialize_vector(items) == Joined([i \in DOMAIN items |-> _serialize(items[i])], <<"[">>, <<"]">>)

_serialize_set(items) ==
    Joined([i \in DOMAIN items |-> _serialize(items[i])], <<"#", "{">>, <<"}">>)

\* the pairs of _serialize_map: key_str, value_str in the order of mapping.items()
_serialize_map(mapping) ==
    Joined([i \in 1..(2 * Len(mapping)) |-> _serialize(mapping[(i + 1) \div 2][2 - (i % 2)])],
           <<"{">>, <<"}">>)

_serialize(o) ==
    CASE o.t = "NoneType" -> Written(<<"n", "i", "l">>)
      [] o.t = "bool" ->
            Written(IF o.v THEN <<"t", "r", "u", "e">> ELSE <<"f", "a", "l", "s", "e">>)
      [] o.t = "int" -> Written(IntStr(o.v))
      [] o.t = "float" -> Written(FloatStr(o.v))
      [] o.t = "str" ->
            IF o.v /= <<>> /\ Head(o.v) = ":" THEN Written(o.v)
            ELSE Written(_serialize_string(o.v))
      [] o.t = "datetime" -> Written(_serialize_datetime(o.v))
      [] o.t = "UUID" -> Written(<<"#", "u", "u", "i", "d", " ", "\"">> \o UuidStr(o.v) \o <<"\"">>)
      [] o.t \in {"list", "tuple"} -> _serialize_vector(o.v)
      [] o.t \in {"set", "frozenset"} -> _serialize_set(o.v)
      [] o.t = "dict" -> _serialize_map(o.v)
      [] OTHER -> CannotSerialize(o.t)

\* dumps(obj)
dumps(o) == _serialize(o)

----------------------------------------------------------------------------
(* The calls as actions *)

NoText == <<"<none>">>
NoObj == V("<none>", 0)
NoOutcome == [k |-> "none", val |-> NilV, exc |-> "", msg |-> "", at |-> -1, lim |-> -1,
              ch |-> "", rd |-> NoReader, cause |-> ""]

\* a reader that ignores the registry it is passed
ResolveRegistry_default(passed) == heap[regs[1]._handlers]

\* tag_registry or default_registry of EdnReader.__init__: the dict the reader looks tags up in;
\* passed is the index in regs of the registry passed, 0 when None is passed
ResolveRegistry(passed) ==
    IF passed = 0 THEN heap[regs[1]._handlers] ELSE heap[regs[passed]._handlers]

\* text = dumps(obj); the text is then what loads is given
Dumps ==
    /\ pc = "dumps"
    /\ LET w == dumps(obj)
       IN  IF w.ok
           THEN /\ s' = w.text
                /\ pc' = "loads"
                /\ out' = out
           ELSE /\ s' = s
                /\ pc' = "done"
                /\ out' = Raise(NoReader, EDNParseError, "Cannot serialize type", -1, -1, w.type)
    /\ UNCHANGED <<obj, variant, max_depth, shape, out2, regvars>>

\* out = loads(s, max_depth)
Loads ==
    /\ pc = "loads"
    /\ out' = loads(s, max_depth, ResolveRegistry(0))
    /\ pc' = IF variant = NoText THEN "done" ELSE "loads_variant"
    /\ UNCHANGED <<obj, s, variant, max_depth, shape, out2, regvars>>

\* out2 = loads(variant, max_depth)
LoadsVariant ==
    /\ pc = "loads_variant"
    /\ out2' = loads(variant, max_depth, ResolveRegistry(0))
    /\ pc' = "done"
    /\ UNCHANGED <<obj, s, variant, max_depth, shape, out, regvars>>

\* out2 = loads(obj, max_depth), obj a bytes object; the read of s follows
LoadsBytes ==
    /\ pc = "loads_bytes"
    /\ out2' = loads_bytes(obj.v, max_depth, ResolveRegistry(0))
    /\ pc' = "loads"
    /\ UNCHANGED <<obj, s, variant, max_depth, shape, out, regvars>>

\* loads(s, max_depth) and loads(variant, max_depth) called side by side: each makes its reader
StartReaders ==
    /\ pc = "start"
    /\ threads' = [i \in 1..2 |->
                     [rd |-> EdnReader(IF i = 1 THEN s ELSE variant, max_depth, ResolveRegistry(0)),
                      frames |-> <<>>, got |-> NotGot, out |-> NoOutcome]]
    /\ depths' = [i \in 1..2 |-> 0]
    /\ pc' = "running"
    /\ UNCHANGED <<obj, s, variant, max_depth, shape, out, out2, heap, regs, calls, tags>>

\* reader i takes its next step, on the _current_depth it owns
ReaderStep(i) ==
    /\ pc = "running"
    /\ threads[i].out.k = "none"
    /\ \E th \in {ThreadStep([threads[i] EXCEPT !.rd.current_depth = depths[DepthOwner(i)]])} :
          /\ threads' = [threads EXCEPT ![i] = th]
          /\ depths' = [depths EXCEPT ![DepthOwner(i)] = th.rd.current_depth]
    /\ UNCHANGED <<pc, obj, s, variant, max_depth, shape, out, out2, heap, regs, calls, tags>>

\* reader = EdnReader(s, max_depth): the reader a caller keeps to call read_value on
NewReader ==
    /\ pc = "new_reader"
    /\ threads' = << [rd |-> EdnReader(s, max_depth, ResolveRegistry(0)), frames |-> <<>>,
                      got |-> NotGot, out |-> NoOutcome] >>
    /\ depths' = <<0>>
    /\ pc' = "read_value"
    /\ UNCHANGED <<obj, s, variant, max_depth, shape, out, out2, heap, regs, calls, tags>>

\* reader.read_value(), the first call then the second on the same reader; depths keeps the
\* _current_depth the reader had after construction and after each call
ReadValue ==
    /\ pc \in {"read_value", "read_again"}
    /\ \E o \in {read_value(threads[1].rd)} :
          /\ threads' = [threads EXCEPT ![1].rd = o.rd, ![1].out = o]
          /\ depths' = Append(depths, o.rd.current_depth)
          /\ IF pc = "read_value"
             THEN out' = o /\ out2' = out2 /\ pc' = "read_again"
             ELSE out' = out /\ out2' = o /\ pc' = "done"
    /\ UNCHANGED <<obj, s, variant, max_depth, shape, heap, regs, calls, tags>>

\* loads(s) on default_registry, whose handlers may change it: the dict of the registry is
\* left as the read left it; the first call gives out, the second out2
ReadActive ==
    /\ pc = "registry"
    /\ \E o \in {loads(s, max_depth, ResolveRegistry(0))} :
          /\ heap' = [heap EXCEPT ![regs[1]._handlers] = o.rd.tag_registry]
          /\ IF out.k = "none"
             THEN out' = o /\ out2' = out2 /\ pc' = pc
             ELSE out' = out /\ out2' = o /\ pc' = "done"
    /\ UNCHANGED <<obj, s, variant, max_depth, shape, regs, calls, tags, readvars>>

\* what peek() and read() return for the character c: None at the end of the input
PyChar(c) == IF c = None THEN NilV ELSE StrV(<<c>>)

\* reader.m(): read_value and the methods it is made of that open no collection, as a
\* caller of the class can call them
CallMethod(m, rd) ==
    CASE m = "peek" -> Ok(rd, PyChar(peek(rd)))
      [] m = "read" -> Ok(read(rd), PyChar(peek(rd)))
      [] m = "skip_whitespace_and_comments" -> Ok(skip_whitespace_and_comments(rd), NilV)
      [] m = "_read_string" -> _read_string(rd)
      [] m = "read_symbol_or_keyword" ->
            LET w == read_symbol_or_keyword(rd, <<>>) IN Ok(w.rd, StrV(w.word))
      [] m = "read_number" -> read_number(rd, "1")
      [] m = "_read_char" -> _read_char(rd)
      [] m = "_read_keyword" -> _read_keyword(rd)
      [] m = "read_value" -> read_value(rd)

\* one call of method m on the reader, in whatever state earlier calls left it
Call(m) ==
    /\ pc = "read_value"
    /\ \E o \in {CallMethod(m, threads[1].rd)} :
          /\ threads' = [threads EXCEPT ![1].rd = o.rd, ![1].out = o]
          /\ out' = o
    /\ depths' = <<threads[1].rd.current_depth>>
    /\ shape' = [shape EXCEPT !.method = m]
    /\ UNCHANGED <<pc, obj, s, variant, max_depth, out2, heap, regs, calls, tags>>

\* reader = EdnReader(s, max_depth) and the call of reader.read_value()
StartRead ==
    /\ pc = "start_read"
    /\ threads' = << [rd |-> EdnReader(s, max_depth, ResolveRegistry(0)),
                      stack |-> <<Frame("read_value")>>, ret |-> NotGot, out |-> NoOutcome] >>
    /\ depths' = <<0>>
    /\ pc' = "reading"
    /\ UNCHANGED <<obj, s, variant, max_depth, shape, out, out2, heap, regs, calls, tags>>

\* the read takes its next step
ReadTurn ==
    /\ pc = "reading"
    /\ threads[1].out.k = "none"
    /\ \E th \in {Turn(threads[1])} :
          /\ threads' = <<th>>
          /\ depths' = <<th.rd.current_depth>>
    /\ UNCHANGED <<pc, obj, s, variant, max_depth, shape, out, out2, heap, regs, calls, tags>>

\* max_depth: int = 100 of loads and EdnReader
DefaultMaxDepth == 100

----------------------------------------------------------------------------
(* dumps then loads, on a bounded universe of values *)

MaxItems == 2   \* the most items of a sequence or map of the universe
MaxWrap == 2    \* the most collections wrapped around one value of the universe
LowDepth == 1   \* a max_depth below the nesting of some values of the universe

uuid1 ==
    <<"f", "8", "1", "d", "4", "f", "a", "e", "7", "d", "e", "c", "1", "1", "d", "0",
      "a", "7", "6", "5", "0", "0", "a", "0", "c", "9", "1", "e", "6", "b", "f", "6">>

Str_ab == StrV(<<"a", " ", "b">>)
Str_kw == StrV(<<":", "k", "w">>)
Str_k == StrV(<<"k">>)

StrAtoms ==
    { StrV(<<>>), Str_ab, StrV(<<"a", "\\", "n">>), StrV(<<"x", "\n", "\t">>), Str_kw,
      StrV(<<":", "a", " ", "b">>), StrV(<<":">>), StrV(<<"n", "i", "l">>) }

Atoms ==
    { NilV, BoolV(TRUE), BoolV(FALSE), IntV(0), IntV(-7), IntV(120),
      FloatV(15, -1), FloatV(-2, 0), FloatV(1, 16), FloatV(15, -8), FloatV(0, 0),
      FloatSpecial("inf"), FloatSpecial("-inf"), FloatSpecial("nan"),
      DatetimeV(2023, 1, 15, 10, 30, 0, 0, TRUE, 0),
      DatetimeV(2023, 6, 15, 14, 30, 5, 123000, TRUE, 330),
      DatetimeV(2012, 9, 10, 23, 51, 55, 0, TRUE, -300),
      DatetimeV(2023, 1, 15, 10, 30, 0, 0, FALSE, 0),
      DatetimeV(2023, 1, 15, 10, 30, 0, 840000, FALSE, 0),
      UuidV(uuid1) } \cup StrAtoms

\* the members of the sequences and maps of more than one item
Members == { NilV, BoolV(TRUE), IntV(-7), FloatV(15, -1), Str_ab, Str_kw, TupleV(<<>>),
             ListV(<<IntV(1)>>), DictV(<<>>) }

MapKeys == { Str_k, Str_ab, Str_kw }

RECURSIVE SeqsUpTo(_, _)
SeqsUpTo(S, n) ==
    IF n = 0 THEN {<<>>}
    ELSE LET shorter == SeqsUpTo(S, n - 1)
         IN  shorter \cup {Append(q, x) : q \in {p \in shorter : Len(p) = n - 1}, x \in S}

Distinct(q) == \A i, j \in DOMAIN q : i /= j => q[i] /= q[j]

\* one value wrapped in n collections: a tuple, a list or a map value, per kinds
RECURSIVE Wrapped(_, _)
Wrapped(kinds, a) ==
    IF kinds = <<>> THEN a
    ELSE LET inner == Wrapped(Tail(kinds), a)
         IN  CASE Head(kinds) = "tuple" -> TupleV(<<inner>>)
               [] Head(kinds) = "list" -> ListV(<<inner>>)
               [] Head(kinds) = "dict" -> DictV(<< <<Str_k, inner>> >>)

Universe ==
    {Wrapped(kinds, a) : kinds \in SeqsUpTo({"tuple", "list", "dict"}, MaxWrap), a \in Atoms}
    \cup {TupleV(q) : q \in SeqsUpTo(Members, MaxItems)}
    \cup {DictV([i \in DOMAIN ks |-> <<ks[i], vs[i]>>]) :
            <<ks, vs>> \in {kv \in SeqsUpTo(MapKeys, MaxItems) \X SeqsUpTo(Members, MaxItems) :
                               Len(kv[1]) = Len(kv[2]) /\ Distinct(kv[1])}}

InitRoundTrip ==
    /\ pc = "dumps"
    /\ obj \in Universe
    /\ s = NoText
    /\ variant = NoText
    /\ max_depth \in {DefaultMaxDepth, LowDepth}
    /\ shape = [kind |-> "roundtrip"]
    /\ out = NoOutcome
    /\ out2 = NoOutcome
    /\ Imported

SpecRoundTrip == InitRoundTrip /\ [][Dumps \/ Loads]_vars

\* the list/vector collapse: what a value reads back as
RECURSIVE Collapse(_)
Collapse(a) ==
    CASE a.t \in {"list", "tuple"} -> TupleV([i \in DOMAIN a.v |-> Collapse(a.v[i])])
      [] a.t = "dict" -> DictV([i \in DOMAIN a.v |-> <<Collapse(a.v[i][1]), Collapse(a.v[i][2])>>])
      [] OTHER -> a

Max(a, b) == IF a >= b THEN a ELSE b

RECURSIVE MaxOver(_)
MaxOver(ns) == IF ns = <<>> THEN 0 ELSE Max(Head(ns), MaxOver(Tail(ns)))

\* the nesting depth of a value: 0 for a scalar
RECURSIVE NestingOf(_)
NestingOf(a) ==
    CASE a.t \in {"list", "tuple", "frozenset"} ->
            1 + MaxOver([i \in DOMAIN a.v |-> NestingOf(a.v[i])])
      [] a.t = "dict" ->
            1 + MaxOver([i \in DOMAIN a.v |->
                            Max(NestingOf(a.v[i][1]), NestingOf(a.v[i][2]))])
      [] OTHER -> 0

\* the scalars that do not read back: inf and nan, a datetime without zone, and a string
\* starting with : (written verbatim) that holds a delimiter
RECURSIVE HasLossyScalar(_)
HasLossyScalar(a) ==
    CASE a.t = "float" -> a.v.sp /= ""
      [] a.t = "datetime" -> ~a.v.aware
      [] a.t = "str" ->
            a.v /= <<>> /\ Head(a.v) = ":" /\ \E i \in DOMAIN a.v : a.v[i] \in Delimiters
      [] a.t \in {"list", "tuple", "frozenset"} -> \E i \in DOMAIN a.v : HasLossyScalar(a.v[i])
      [] a.t = "dict" ->
            \E i \in DOMAIN a.v : HasLossyScalar(a.v[i][1]) \/ HasLossyScalar(a.v[i][2])
      [] OTHER -> FALSE

ReadBack == pc = "done" /\ out.k = "ok" /\ PyEq(Collapse(obj), out.val)

\* C1 as stated: every value of the universe (Nil, Boolean, Integer, Float, quote-free String,
\* Instant, UUID, ordered sequence, Map with string keys) satisfies loads(dumps(v)) = v up to
\* the list/vector collapse.
C1_RoundTripAll ==
    (shape.kind = "roundtrip" /\ pc = "done" /\ max_depth = DefaultMaxDepth) => ReadBack

\* C1 amended: loads(dumps(v)) = v up to the list/vector collapse for every such value that
\* is nested at most max_depth deep and holds no inf or nan, no datetime without zone and no
\* string that starts with : and contains a delimiter.
C1_RoundTrip ==
    (/\ shape.kind = "roundtrip"
     /\ pc = "done"
     /\ NestingOf(obj) <= max_depth
     /\ ~HasLossyScalar(obj)) => ReadBack

\* a map holding a list came back as the map holding the tuple
C1_Witness ==
    /\ shape.kind = "roundtrip"
    /\ ReadBack
    /\ obj.t = "dict" /\ Len(obj.v) = 2
    /\ \E i \in DOMAIN obj.v : obj.v[i][2].t = "list"
    /\ ~HasLossyScalar(obj)

----------------------------------------------------------------------------
(* loads on every text of at most MaxTokens tokens *)

MaxTokens == 4

tok_unknown == <<"#", "f", "o", "o">>
tok_discard == <<"#", "_">>
tok_set == <<"#", "{">>
tok_str == <<"\"", "x", "\"">>
tok_kw == <<":", "a">>

ReadTokens ==
    { <<"[">>, <<"]">>, <<"{">>, <<"}">>, tok_set, tok_discard, tok_unknown,
      <<"#">> \o tag_db_fn, <<"#">> \o tag_uuid, <<"1">>, <<"1", "e">>, tok_str, tok_kw }

\* the tokens, one space between two
TextOf(toks) == Join(<<" ">>, toks)

InitRead ==
    /\ pc = "loads"
    /\ obj = NoObj
    /\ \E toks \in SeqsUpTo(ReadTokens, MaxTokens) :
          /\ s = TextOf(toks)
          /\ shape = [kind |-> "tokens", toks |-> toks]
    /\ variant = NoText
    /\ max_depth = DefaultMaxDepth
    /\ out = NoOutcome
    /\ out2 = NoOutcome
    /\ Imported

SpecRead == InitRead /\ [][Loads]_vars

\* a is the Skip sentinel or holds it at some depth
RECURSIVE HoldsSkip(_)
HoldsSkip(a) ==
    CASE a.t = "_Skip" -> TRUE
      [] a.t \in {"list", "tuple", "frozenset"} -> \E i \in DOMAIN a.v : HoldsSkip(a.v[i])
      [] a.t = "dict" -> \E i \in DOMAIN a.v : HoldsSkip(a.v[i][1]) \/ HoldsSkip(a.v[i][2])
      [] OTHER -> FALSE

\* C2: the value a top-level read returns is not the Skip sentinel and holds it nowhere.
C2_NoSkipInResult == (pc = "done" /\ out.k = "ok") => ~HoldsSkip(out.val)

\* C5: a read returns a value or raises EDNParseError; no other error kind escapes.
C5_OnlyParseErrors == (pc = "done" /\ out.k = "raise") => out.exc = EDNParseError

----------------------------------------------------------------------------
(* a text and the same text with a discard form put between two tokens *)

DiscardTokens ==
    { <<"[">>, <<"]">>, <<"{">>, <<"}">>, tok_set, tok_unknown, <<"1">>, tok_kw }

\* the value behind #_, as tokens
DiscardedValues == { << <<"0">> >>, << <<"[">>, <<"7">>, <<"]">> >>, << tok_str >> }

\* toks with the tokens of ins put after the first idx of them
Insert(toks, idx, ins) ==
    SubSeq(toks, 1, idx) \o ins \o SubSeq(toks, idx + 1, Len(toks))

InitDiscard ==
    /\ pc = "loads"
    /\ obj = NoObj
    /\ \E toks \in SeqsUpTo(DiscardTokens, MaxTokens) :
       \E idx \in 0..Len(toks) :
       \E v \in DiscardedValues :
          /\ s = TextOf(toks)
          /\ variant = TextOf(Insert(toks, idx, <<tok_discard>> \o v))
          /\ shape = [kind |-> "discard", toks |-> toks, idx |-> idx, v |-> v]
    /\ max_depth = DefaultMaxDepth
    /\ out = NoOutcome
    /\ out2 = NoOutcome
    /\ Imported

SpecDiscard == InitDiscard /\ [][Loads \/ LoadsVariant]_vars

\* C3: a text that reads to a value reads to the same value with `#_ v` put at any
\* token boundary, the one before a closing delimiter included.
C3_DiscardIsNoOp ==
    (shape.kind = "discard" /\ pc = "done" /\ out.k = "ok")
        => (out2.k = "ok" /\ PyEq(out2.val, out.val))

----------------------------------------------------------------------------
(* collections nested to the limit and one past it *)

MaxDepthArg == 3

\* one level of nesting: a vector, a list, a set, a map holding the next level as a
\* value or as a key, a vector holding an empty vector before the next level
LevelKinds == {"vector", "list", "set", "map-value", "map-key", "vector-sibling"}

OpenOf(kind) ==
    CASE kind = "vector" -> <<"[">>
      [] kind = "list" -> <<"(">>
      [] kind = "set" -> <<"#", "{">>
      [] kind = "map-value" -> <<"{", ":", "a", " ">>
      [] kind = "map-key" -> <<"{">>
      [] kind = "vector-sibling" -> <<"[", "[", "]", " ">>

CloseOf(kind) ==
    CASE kind = "vector" -> <<"]">>
      [] kind = "list" -> <<")">>
      [] kind = "set" -> <<"}">>
      [] kind = "map-value" -> <<"}">>
      [] kind = "map-key" -> <<" ", "1", "}">>
      [] kind = "vector-sibling" -> <<"]">>

RECURSIVE Nested(_)
Nested(ks) ==
    IF ks = <<>> THEN <<"1">>
    ELSE OpenOf(Head(ks)) \o Nested(Tail(ks)) \o CloseOf(Head(ks))

\* the number of collections around the innermost one, itself included
DepthOf(ks) ==
    Len(ks) + (IF ks /= <<>> /\ ks[Len(ks)] = "vector-sibling" THEN 1 ELSE 0)

RECURSIVE OpenLen(_, _)
OpenLen(ks, n) == IF n = 0 THEN 0 ELSE OpenLen(ks, n - 1) + Len(OpenOf(ks[n]))

\* the offset of the bracket that opens the first collection at depth n of Nested(ks)
FirstAtDepth(ks, n) ==
    IF n >= 2 /\ ks[n - 1] = "vector-sibling"
    THEN OpenLen(ks, n - 2) + 1
    ELSE OpenLen(ks, n - 1) + (IF ks[n] = "set" THEN 1 ELSE 0)

InitDepth ==
    /\ pc = "loads"
    /\ obj = NoObj
    /\ max_depth \in 0..MaxDepthArg
    /\ \E ks \in SeqsUpTo(LevelKinds, MaxDepthArg + 1) :
          /\ DepthOf(ks) \in {max_depth, max_depth + 1}
          /\ s = Nested(ks)
          /\ shape = [kind |-> "depth", ks |-> ks]
    /\ variant = NoText
    /\ out = NoOutcome
    /\ out2 = NoOutcome
    /\ Imported

SpecDepth == InitDepth /\ [][Loads]_vars

DepthLimitError(o, limit, position) ==
    /\ o.k = "raise"
    /\ o.exc = EDNParseError
    /\ o.msg = "Maximum nesting depth exceeded"
    /\ o.lim = limit
    /\ o.at = position

\* C4: collections nested max_depth deep are read; nested max_depth + 1 deep they
\* raise the depth-limit parse error with the limit and the offset of the bracket
\* that opens the first collection past the limit.
C4_DepthEnforced ==
    (shape.kind = "depth" /\ pc = "done")
        => IF DepthOf(shape.ks) <= max_depth
           THEN out.k = "ok"
           ELSE DepthLimitError(out, max_depth, FirstAtDepth(shape.ks, max_depth + 1))

----------------------------------------------------------------------------
(* a vector, list or set whose elements are values and forms under an unknown tag *)

MaxElems == 3

\* a form of the text with the value it reads to
Form(text, val) == [text |-> text, val |-> val]

PlainElems ==
    { Form(<<"1">>, IntV(1)),
      Form(tok_str, StrV(<<"x">>)),
      Form(tok_kw, StrV(tok_kw)),
      Form(<<"[", "2", "]">>, TupleV(<<IntV(2)>>)) }

\* an unknown tag and its payload, one value
TaggedTexts ==
    { tok_unknown \o <<" ", "7">>,
      <<"#", "u", "n", "k", "n", "o", "w", "n", " ", "\"", "y", "\"">>,
      tok_unknown \o <<" ", "[", "8", " ", "9", "]">>,
      tok_unknown \o <<" ", "#", "b", "a", "r", " ", "7">>,
      tok_unknown \o <<"{", ":", "k", " ", "7", "}">> }

TaggedElems == { Form(text, SKIP) : text \in TaggedTexts }

RECURSIVE TextsOf(_)
TextsOf(forms) == IF forms = <<>> THEN <<>> ELSE <<Head(forms).text>> \o TextsOf(Tail(forms))

\* the values of the forms that are not under an unknown tag, in order
RECURSIVE KeptOf(_)
KeptOf(forms) ==
    IF forms = <<>> THEN <<>>
    ELSE (IF Head(forms).val = SKIP THEN <<>> ELSE <<Head(forms).val>>) \o KeptOf(Tail(forms))

Brackets == { <<<<"[">>, <<"]">>>>, <<<<"(">>, <<")">>>>, <<tok_set, <<"}">>>> }

InitCollection ==
    /\ pc = "loads"
    /\ obj = NoObj
    /\ \E elems \in SeqsUpTo(PlainElems \cup TaggedElems, MaxElems) :
       \E b \in Brackets :
          /\ s = b[1] \o Join(<<" ">>, TextsOf(elems)) \o b[2]
          /\ shape = [kind |-> "collection", open |-> b[1], elems |-> elems]
    /\ variant = NoText
    /\ max_depth = DefaultMaxDepth
    /\ out = NoOutcome
    /\ out2 = NoOutcome
    /\ Imported

SpecCollection == InitCollection /\ [][Loads]_vars

\* C6: a vector or list reads to the values of its elements that carry no unknown
\* tag, in their order, and a set to the Set of them; each unknown tag goes with
\* exactly its one payload value.
C6_UnknownTagElided ==
    (shape.kind = "collection" /\ pc = "done")
        => /\ out.k = "ok"
           /\ IF shape.open = tok_set
              THEN out.val.t = "frozenset"
                   /\ PyEq(out.val, SetV(Dedup(KeptOf(shape.elems), <<>>)))
              ELSE out.val = TupleV(KeptOf(shape.elems))

C6_Witness ==
    /\ shape.kind = "collection" /\ pc = "done"
    /\ shape.open = <<"[">>
    /\ Len(shape.elems) = 3
    /\ shape.elems[1].val = IntV(1)
    /\ shape.elems[2].val = SKIP
    /\ shape.elems[3].val = StrV(tok_kw)
    /\ out.k = "ok"
    /\ out.val = TupleV(<<IntV(1), StrV(tok_kw)>>)

----------------------------------------------------------------------------
(* a map whose keys and values are values and forms under an unknown tag *)

MaxPairs == 3

KeyForms ==
    { Form(tok_kw, StrV(tok_kw)),
      Form(<<":", "b">>, StrV(<<":", "b">>)),
      Form(tok_unknown \o <<" ", ":", "c">>, SKIP),
      Form(tok_unknown \o <<" ", "7">>, SKIP) }

ValueForms ==
    { Form(<<"1">>, IntV(1)),
      Form(<<":", "b">>, StrV(<<":", "b">>)),
      Form(tok_unknown \o <<" ", "7">>, SKIP),
      Form(tok_unknown \o <<" ", "[", "8", " ", "9", "]">>, SKIP) }

RECURSIVE PairTexts(_)
PairTexts(pairs) ==
    IF pairs = <<>> THEN <<>>
    ELSE <<Head(pairs)[1].text, Head(pairs)[2].text>> \o PairTexts(Tail(pairs))

\* the dict of the pairs with no unknown tag in key or value, in order
RECURSIVE KeptPairs(_, _)
KeptPairs(pairs, acc) ==
    IF pairs = <<>> THEN acc
    ELSE LET p == Head(pairs)
         IN  KeptPairs(Tail(pairs),
                       IF p[1].val = SKIP \/ p[2].val = SKIP THEN acc
                       ELSE DictSet(acc, p[1].val, p[2].val))

InitMap ==
    /\ pc = "loads"
    /\ obj = NoObj
    /\ \E pairs \in SeqsUpTo(KeyForms \X ValueForms, MaxPairs) :
          /\ s = <<"{">> \o Join(<<" ">>, PairTexts(pairs)) \o <<"}">>
          /\ shape = [kind |-> "map", pairs |-> pairs]
    /\ variant = NoText
    /\ max_depth = DefaultMaxDepth
    /\ out = NoOutcome
    /\ out2 = NoOutcome
    /\ Imported

SpecMap == InitMap /\ [][Loads]_vars

\* C7: a map reads to the pairs with no unknown tag in key or value, each with its
\* own key and value; a pair with one is dropped whole.
C7_SkipPairDropped ==
    (shape.kind = "map" /\ pc = "done")
        => /\ out.k = "ok"
           /\ out.val.t = "dict"
           /\ PyEq(out.val, DictV(KeptPairs(shape.pairs, <<>>)))

C7_Witness ==
    /\ shape.kind = "map" /\ pc = "done"
    /\ Len(shape.pairs) = 3
    /\ shape.pairs[1][1].val = SKIP /\ shape.pairs[1][2].val /= SKIP
    /\ shape.pairs[2][1].val /= SKIP /\ shape.pairs[2][2].val = SKIP
    /\ shape.pairs[3][1].val = StrV(<<":", "b">>) /\ shape.pairs[3][2].val = IntV(1)
    /\ out.k = "ok"
    /\ out.val = DictV(<< <<StrV(<<":", "b">>), IntV(1)>> >>)

----------------------------------------------------------------------------
(* a character literal: a backslash, a word, and what follows the word *)

CharWords ==
    { NAMED_CHARS[i][1] : i \in DOMAIN NAMED_CHARS }
        \cup { <<>>, <<"s">>, <<"s", "p", "a", "c">>, <<"t", "a", "b", "s">>, <<"n">>, <<"x">> }

CharFollows ==
    { <<>> } \cup { <<d>> : d \in Delimiters }
        \cup { <<"s">>, <<"h">>, <<"1">>, <<"#">>, <<":">>, <<"-">> }

CharTails == { <<>>, <<"h", "i", "p">> }

InitChar ==
    /\ pc = "loads"
    /\ obj = NoObj
    /\ \E word \in CharWords, follow \in CharFollows, tail \in CharTails :
          /\ s = <<"\\">> \o word \o follow \o tail
          /\ shape = [kind |-> "char", word |-> word, follow |-> follow, tail |-> tail]
    /\ variant = NoText
    /\ max_depth = DefaultMaxDepth
    /\ out = NoOutcome
    /\ out2 = NoOutcome
    /\ Imported

SpecChar == InitChar /\ [][Loads]_vars

\* whitespace, comma, a collection bracket, quote, backslash, semicolon
CharTerminators ==
    {" ", "\t", "\n", "\r", ",", "[", "]", "(", ")", "{", "}", "\"", "\\", ";"}

\* the text behind the backslash is name, then a terminator or the end of the text
NamedHere(name) ==
    /\ StartsWith(Rest(s, 1), name)
    /\ (Len(s) = 1 + Len(name) \/ s[Len(name) + 2] \in CharTerminators)

\* C8: behind a backslash, a name followed by a delimiter or the end of input reads
\* as the named character and the whole name is consumed; any other text reads as
\* its first character and exactly that character is consumed.
C8_NamedCharOnlyBeforeDelimiter ==
    (shape.kind = "char" /\ pc = "done" /\ Len(s) > 1)
        => /\ out.k = "ok"
           /\ IF \E i \in DOMAIN NAMED_CHARS : NamedHere(NAMED_CHARS[i][1])
              THEN \E i \in DOMAIN NAMED_CHARS :
                      /\ NamedHere(NAMED_CHARS[i][1])
                      /\ out.val = StrV(<<NAMED_CHARS[i][2]>>)
                      /\ out.rd.pos = 1 + Len(NAMED_CHARS[i][1])
              ELSE out.val = StrV(<<s[2]>>) /\ out.rd.pos = 2

C8_Witness ==
    /\ shape.kind = "char" /\ pc = "done"
    /\ s = <<"\\", "s", "p", "a", "c", "e", "s", "h", "i", "p">>
    /\ out.k = "ok"
    /\ out.val = StrV(<<"s">>)
    /\ out.rd.pos = 2

----------------------------------------------------------------------------
(* a set literal whose elements are vectors, lists and maps *)

MaxSetElems == 3

SetElems ==
    { Form(<<"[", "1", "]">>, TupleV(<<IntV(1)>>)),
      Form(<<"[", "2", "]">>, TupleV(<<IntV(2)>>)),
      Form(<<"(", "1", ")">>, TupleV(<<IntV(1)>>)),
      Form(<<"[", "[", "1", "]", "]">>, TupleV(<<TupleV(<<IntV(1)>>)>>)),
      Form(<<"{", "}">>, DictV(<<>>)),
      Form(<<"{", ":", "a", " ", "1", "}">>, DictV(<< <<StrV(tok_kw), IntV(1)>> >>)),
      Form(<<"[", "{", "}", "]">>, TupleV(<<DictV(<<>>)>>)) }

InitSet ==
    /\ pc = "loads"
    /\ obj = NoObj
    /\ \E elems \in SeqsUpTo(SetElems, MaxSetElems) :
          /\ s = tok_set \o Join(<<" ">>, TextsOf(elems)) \o <<"}">>
          /\ shape = [kind |-> "set", elems |-> elems]
    /\ variant = NoText
    /\ max_depth = DefaultMaxDepth
    /\ out = NoOutcome
    /\ out2 = NoOutcome
    /\ Imported

SpecSet == InitSet /\ [][Loads]_vars

\* a is a map or a vector or list holding one at some depth
RECURSIVE HoldsMap(_)
HoldsMap(a) ==
    CASE a.t = "dict" -> TRUE
      [] a.t \in {"tuple", "list"} -> \E i \in DOMAIN a.v : HoldsMap(a.v[i])
      [] OTHER -> FALSE

\* C9 as stated: a set literal of vectors, lists or maps reads, without raising, to
\* the ordered sequence of all its elements in encounter order.
C9_AlwaysOrderedSequence ==
    (shape.kind = "set" /\ pc = "done" /\ shape.elems /= <<>>)
        => (out.k = "ok" /\ out.val = TupleV(KeptOf(shape.elems)))

\* C9: a set literal of vectors, lists or maps reads without raising: to the ordered
\* sequence of all its elements in encounter order when an element is a map or holds
\* one, and otherwise to a Set of its distinct elements.
C9_SetDegradation ==
    (shape.kind = "set" /\ pc = "done" /\ shape.elems /= <<>>)
        => /\ out.k = "ok"
           /\ LET elems == KeptOf(shape.elems)
              IN  IF \E i \in DOMAIN elems : HoldsMap(elems[i])
                  THEN out.val = TupleV(elems)
                  ELSE /\ out.val.t = "frozenset"
                       /\ {Key(out.val.v[i]) : i \in DOMAIN out.val.v}
                              = {Key(elems[i]) : i \in DOMAIN elems}
                       /\ \A i, j \in DOMAIN out.val.v :
                              i /= j => ~PyEq(out.val.v[i], out.val.v[j])

C9_Witness ==
    /\ shape.kind = "set" /\ pc = "done"
    /\ s = <<"#", "{", "[", "1", "]", " ", "{", "}", " ", "[", "1", "]", "}">>
    /\ out.k = "ok"
    /\ out.val = TupleV(<<TupleV(<<IntV(1)>>), DictV(<<>>), TupleV(<<IntV(1)>>)>>)

----------------------------------------------------------------------------
(* #inst payloads: a date, a time, a fraction and an offset, or a date alone *)

DateTexts ==
    { [text |-> <<"2", "0", "2", "3", "-", "0", "1", "-", "1", "5">>, y |-> 2023, mo |-> 1, d |-> 15],
      [text |-> <<"2", "0", "2", "4", "-", "0", "2", "-", "2", "9">>, y |-> 2024, mo |-> 2, d |-> 29],
      [text |-> <<"2", "0", "2", "3", "-", "1", "-", "5">>, y |-> 2023, mo |-> 1, d |-> 5] }

TimeTexts ==
    { [text |-> <<"T", "1", "0", ":", "3", "0", ":", "0", "0">>, h |-> 10, mi |-> 30, sec |-> 0],
      [text |-> <<"T", "2", "3", ":", "5", "9", ":", "5", "9">>, h |-> 23, mi |-> 59, sec |-> 59],
      [text |-> <<"T", "0", "0", ":", "0", "0", ":", "0", "1">>, h |-> 0, mi |-> 0, sec |-> 1] }

\* a payload that is a date alone: midnight
DateOnly == [text |-> <<>>, h |-> 0, mi |-> 0, sec |-> 0]

FractionTexts ==
    { [text |-> <<>>, us |-> 0],
      [text |-> <<".", "8", "4", "0">>, us |-> 840000],
      [text |-> <<".", "1", "2", "3", "4", "5", "6">>, us |-> 123456] }

\* the spellings of UTC: Z, +00:00, -00:00 and no offset
UtcSuffixes ==
    { <<"Z">>, <<"+", "0", "0", ":", "0", "0">>, <<"-", "0", "0", ":", "0", "0">>, <<>> }

OffsetTexts ==
    { [text |-> z, off |-> 0] : z \in UtcSuffixes }
        \cup { [text |-> <<"+", "0", "5", ":", "3", "0">>, off |-> 330],
               [text |-> <<"-", "0", "8", ":", "0", "0">>, off |-> -480] }

InstText(payload) == <<"#">> \o tag_inst \o <<" ", "\"">> \o payload \o <<"\"">>

InitInst ==
    /\ pc = "loads"
    /\ obj = NoObj
    /\ \E date \in DateTexts, time \in TimeTexts \cup {DateOnly}, fraction \in FractionTexts,
          offset \in OffsetTexts, utc \in UtcSuffixes :
          /\ time = DateOnly =>
                (Len(date.text) = 10 /\ fraction.text = <<>> /\ offset.text = <<>> /\ utc = <<>>)
          /\ s = InstText(date.text \o time.text \o fraction.text \o offset.text)
          /\ variant = InstText(date.text \o time.text \o fraction.text \o utc)
          /\ shape = [kind |-> "inst", date |-> date, time |-> time, fraction |-> fraction,
                      offset |-> offset, utc |-> utc]
    /\ max_depth = DefaultMaxDepth
    /\ out = NoOutcome
    /\ out2 = NoOutcome
    /\ Imported

SpecInst == InitInst /\ [][Loads \/ LoadsVariant]_vars

\* the zone-aware datetime of the parts of the payload
InstOf(date, time, fraction, off) ==
    DatetimeV(date.y, date.mo, date.d, time.h, time.mi, time.sec, fraction.us, TRUE, off)

----------------------------------------------------------------------------
(* TagRegistry instances: created, changed, and asked for their tags *)

MaxRegistries == 2     \* instances, default_registry included, where calls are followed
MaxCalls == 3          \* register and unregister calls followed
MaxIsolated == 3       \* instances, default_registry included, where isolation is followed
MaxIsolatedCalls == 2  \* register and unregister calls there

tag_double == <<"d", "o", "u", "b", "l", "e">>

RegTags == {tag_inst, tag_double}
RegHandlers == {"_handle_inst", "double_handler"}

\* the tags a caller adds to or removes from the set known_tags gave it
CallerTags == {tag_inst, <<"x">>}

\* the dict of instance i
HandlersOf(i) == heap[regs[i]._handlers]

\* registry = TagRegistry()
NewRegistry ==
    /\ pc = "registry"
    /\ Len(regs) < shape.max_regs
    /\ LET r == TagRegistry(heap)
       IN  /\ heap' = r.heap
           /\ regs' = Append(regs, r.self)
    /\ UNCHANGED <<pc, obj, s, variant, max_depth, shape, out, out2, calls, tags,
                 readvars>>

\* regs[i].register(tag, handler)
Register(i, tag, handler) ==
    /\ pc = "registry"
    /\ Len(calls) < shape.max_calls
    /\ heap' = [heap EXCEPT ![regs[i]._handlers] = register(@, tag, handler)]
    /\ calls' = Append(calls, [op |-> "register", reg |-> i, tag |-> tag, handler |-> handler])
    /\ UNCHANGED <<pc, obj, s, variant, max_depth, shape, out, out2, regs, tags,
                 readvars>>

\* regs[i].unregister(tag)
Unregister(i, tag) ==
    /\ pc = "registry"
    /\ Len(calls) < shape.max_calls
    /\ heap' = [heap EXCEPT ![regs[i]._handlers] = unregister(@, tag)]
    /\ calls' = Append(calls, [op |-> "unregister", reg |-> i, tag |-> tag, handler |-> None])
    /\ UNCHANGED <<pc, obj, s, variant, max_depth, shape, out, out2, regs, tags,
                 readvars>>

\* tags = regs[i].known_tags
KnownTags(i) ==
    /\ pc = "registry"
    /\ tags = NoTags
    /\ tags' = KeySet(i, regs[i]._handlers, heap)
    /\ UNCHANGED <<pc, obj, s, variant, max_depth, shape, out, out2, heap, regs, calls,
                 readvars>>

\* tags.add(tag) or tags.discard(tag) by the caller; a set backed by a dict changes the dict
MutateTags(tag, add) ==
    /\ pc = "registry"
    /\ tags /= NoTags
    /\ tags' = [tags EXCEPT !.elems = IF add THEN @ \cup {tag} ELSE @ \ {tag}]
    /\ heap' = IF tags.backing = None THEN heap
               ELSE [heap EXCEPT ![tags.backing] =
                        IF add THEN (IF tag \in DOMAIN @ THEN @ ELSE register(@, tag, None))
                        ELSE unregister(@, tag)]
    /\ UNCHANGED <<pc, obj, s, variant, max_depth, shape, out, out2, regs, calls,
                 readvars>>

InitRegistry ==
    /\ pc = "registry"
    /\ obj = NoObj
    /\ s = NoText
    /\ variant = NoText
    /\ max_depth = DefaultMaxDepth
    /\ shape = [kind |-> "registry", max_regs |-> MaxRegistries, max_calls |-> MaxCalls]
    /\ out = NoOutcome
    /\ out2 = NoOutcome
    /\ Imported

NextRegistry ==
    \/ NewRegistry
    \/ \E i \in DOMAIN regs, tag \in RegTags, handler \in RegHandlers : Register(i, tag, handler)
    \/ \E i \in DOMAIN regs, tag \in RegTags : Unregister(i, tag)

SpecRegistry == InitRegistry /\ [][NextRegistry]_vars

InitIsolation ==
    /\ pc = "registry"
    /\ obj = NoObj
    /\ s = NoText
    /\ variant = NoText
    /\ max_depth = DefaultMaxDepth
    /\ shape = [kind |-> "isolation", max_regs |-> MaxIsolated, max_calls |-> MaxIsolatedCalls]
    /\ out = NoOutcome
    /\ out2 = NoOutcome
    /\ Imported

NextIsolation ==
    \/ NextRegistry
    \/ \E i \in DOMAIN regs : KnownTags(i)
    \/ \E tag \in CallerTags, add \in BOOLEAN : MutateTags(tag, add)

SpecIsolation == InitIsolation /\ [][NextIsolation]_vars

\* the calls made on instance i about tag, in order
CallsOn(i, tag) == SelectSeq(calls, LAMBDA c : c.reg = i /\ c.tag = tag)

DefaultTags == {tag_inst, tag_uuid, tag_db_fn, tag_discard}

\* what the calls made so far leave as the handler of tag in instance i: the handler of
\* the last register not followed by an unregister; with no call, the one a fresh
\* registry has
LastRegistered(i, tag) ==
    LET on == CallsOn(i, tag)
    IN  IF on = <<>>
        THEN (CASE tag = tag_inst -> "_handle_inst"
                [] tag = tag_uuid -> "_handle_uuid"
                [] tag = tag_db_fn -> "_handle_db_fn"
                [] tag = tag_discard -> "_handle_discard"
                [] OTHER -> None)
        ELSE on[Len(on)].handler

\* C11: in every instance, get_handler(t) is the handler of the last register(t, h) not
\* followed by unregister(t), absent otherwise (a fresh registry knowing exactly inst,
\* uuid, db/fn and _), and is_known(t), get_handler(t) present and t in known_tags agree.
C11_RegistryIsMap ==
    shape.kind = "registry" =>
        \A i \in DOMAIN regs :
            /\ \A tag \in DefaultTags \cup RegTags :
                  /\ get_handler(HandlersOf(i), tag) = LastRegistered(i, tag)
                  /\ is_known(HandlersOf(i), tag) = (get_handler(HandlersOf(i), tag) /= None)
                  /\ is_known(HandlersOf(i), tag) = (tag \in known_tags(HandlersOf(i)))
            /\ known_tags(HandlersOf(i)) \subseteq DefaultTags \cup RegTags

C11_Witness ==
    /\ shape.kind = "registry"
    /\ Len(regs) = 2
    /\ Len(calls) = 3
    /\ calls[1] = [op |-> "register", reg |-> 2, tag |-> tag_double, handler |-> "_handle_inst"]
    /\ calls[2] = [op |-> "unregister", reg |-> 2, tag |-> tag_double, handler |-> None]
    /\ calls[3] = [op |-> "register", reg |-> 2, tag |-> tag_double, handler |-> "double_handler"]
    /\ get_handler(HandlersOf(2), tag_double) = "double_handler"
    /\ known_tags(HandlersOf(2)) = DefaultTags \cup {tag_double}

\* C12: a register or unregister call on one instance, the creation of an instance, and a
\* change made to a set that known_tags returned each leave the handlers of every other
\* instance, default_registry included, as they were; the change to the set leaves those of
\* every instance as they were.
C12_RegistryIsolation ==
    [][shape.kind = "isolation" =>
        /\ calls' /= calls =>
              \A j \in DOMAIN regs :
                  j /= calls'[Len(calls')].reg =>
                      heap'[regs'[j]._handlers] = heap[regs[j]._handlers]
        /\ regs' /= regs =>
              \A j \in DOMAIN regs : heap'[regs'[j]._handlers] = heap[regs[j]._handlers]
        /\ (tags' /= tags /\ tags /= NoTags) =>
              \A j \in DOMAIN regs : heap'[regs'[j]._handlers] = heap[regs[j]._handlers]]_vars

C12_Witness ==
    /\ shape.kind = "isolation"
    /\ Len(regs) = 3
    /\ ~is_known(HandlersOf(2), tag_inst)
    /\ is_known(HandlersOf(1), tag_inst)
    /\ is_known(HandlersOf(3), tag_inst)
    /\ tags.of = 2
    /\ <<"x">> \in tags.elems
    /\ ~is_known(HandlersOf(2), <<"x">>)

----------------------------------------------------------------------------
(* a read with a registry passed, after calls on the registries *)

MaxReadCalls == 2

ReadTags == {tag_inst, tag_double, tag_uuid}

ReadPayloads ==
    << Form(<<"2", "1">>, IntV(21)),
      Form(<<"\"", "b", "a", "d", "\"">>, StrV(<<"b", "a", "d">>)),
      Form(<<"\"", "2", "0", "2", "3", "-", "0", "1", "-", "1", "5", "T", "1", "0", ":", "3", "0",
             ":", "0", "0", "Z", "\"">>,
           StrV(<<"2", "0", "2", "3", "-", "0", "1", "-", "1", "5", "T", "1", "0", ":", "3", "0",
                  ":", "0", "0", "Z">>)) >>

\* what stands in the vector before the tagged form
ReadPrefixes == { Form(<<>>, <<>>), Form(<<"1", " ">>, <<IntV(1)>>) }

InitRegistryRead ==
    /\ pc = "registry"
    /\ obj = NoObj
    /\ \E prefix \in ReadPrefixes, tag \in ReadTags, n \in DOMAIN ReadPayloads :
          LET payload == ReadPayloads[n] IN
          /\ s = <<"[">> \o prefix.text \o <<"#">> \o tag \o <<" ">> \o payload.text \o <<"]">>
          /\ shape = [kind |-> "registry_read", max_regs |-> MaxRegistries,
                      max_calls |-> MaxReadCalls, prefix |-> prefix, tag |-> tag,
                      payload |-> payload, passed |-> -1]
    /\ variant = NoText
    /\ max_depth = DefaultMaxDepth
    /\ out = NoOutcome
    /\ out2 = NoOutcome
    /\ Imported

\* loads(s, tag_registry=regs[i]); i = 0 stands for no registry passed
ReadWith(i) ==
    /\ pc = "registry"
    /\ out' = loads(s, max_depth, ResolveRegistry(i))
    /\ pc' = "done"
    /\ shape' = [shape EXCEPT !.passed = i]
    /\ UNCHANGED <<obj, s, variant, max_depth, out2, regvars>>

NextRegistryRead ==
    \/ NextRegistry
    \/ \E i \in {0} \cup DOMAIN regs : ReadWith(i)

SpecRegistryRead == InitRegistryRead /\ [][NextRegistryRead]_vars

\* C13: the read looks the tag up in the registry passed (in default_registry when none is
\* passed): a tag it knows yields handler(payload, offset of #) in the place of the tagged
\* form, a tag it does not know is skipped with its payload, whatever default_registry knows.
C13_PassedRegistryUsed ==
    (shape.kind = "registry_read" /\ pc = "done")
        => LET used == IF shape.passed = 0 THEN 1 ELSE shape.passed
               handler == get_handler(HandlersOf(used), shape.tag)
               offset == 1 + Len(shape.prefix.text)
           IN  IF handler = None
               THEN out.k = "ok" /\ out.val = TupleV(shape.prefix.val)
               ELSE LET r == CallHandler(handler, NoReader, shape.payload.val, offset)
                    IN  IF r.k = "ok"
                        THEN out.k = "ok" /\ out.val = TupleV(Append(shape.prefix.val, r.val))
                        ELSE /\ out.k = "raise"
                             /\ <<out.exc, out.msg, out.at>> = <<r.exc, r.msg, r.at>>

C13_Witness ==
    /\ shape.kind = "registry_read" /\ pc = "done"
    /\ shape.passed = 2
    /\ shape.tag = tag_inst
    /\ ~is_known(HandlersOf(2), tag_inst)
    /\ is_known(HandlersOf(1), tag_inst)
    /\ out.k = "ok"
    /\ out.val = TupleV(<<IntV(1)>>)

----------------------------------------------------------------------------
(* dumps of values holding something the writer has no case for *)

MaxWriteWrap == 2

\* values of types outside the cases of _serialize
Foreign == { SKIP, V("bytes", <<"a">>), V("complex", 1), V("object", 0) }

WriteKinds == {"tuple", "list", "set", "frozenset", "key", "value"}

\* a value as the item of a sequence, the member of a set, the key or the value of a map
RECURSIVE WriteWrapped(_, _)
WriteWrapped(kinds, a) ==
    IF kinds = <<>> THEN a
    ELSE LET inner == WriteWrapped(Tail(kinds), a)
         IN  CASE Head(kinds) = "tuple" -> TupleV(<<IntV(1), inner>>)
               [] Head(kinds) = "list" -> ListV(<<inner, Str_ab>>)
               [] Head(kinds) = "set" -> V("set", <<inner>>)
               [] Head(kinds) = "frozenset" -> SetV(<<inner>>)
               [] Head(kinds) = "key" -> DictV(<< <<inner, IntV(1)>> >>)
               [] Head(kinds) = "value" -> DictV(<< <<Str_k, inner>> >>)

\* Python builds the value: the members of sets and the keys of maps are hashable
RECURSIVE Constructible(_)
Constructible(a) ==
    CASE a.t \in {"tuple", "list"} -> \A i \in DOMAIN a.v : Constructible(a.v[i])
      [] a.t \in {"set", "frozenset"} ->
            \A i \in DOMAIN a.v : Hashable(a.v[i]) /\ Constructible(a.v[i])
      [] a.t = "dict" ->
            \A i \in DOMAIN a.v :
                Hashable(a.v[i][1]) /\ Constructible(a.v[i][1]) /\ Constructible(a.v[i][2])
      [] OTHER -> TRUE

WriteUniverse ==
    { a \in { WriteWrapped(kinds, leaf) : kinds \in SeqsUpTo(WriteKinds, MaxWriteWrap),
                                          leaf \in Foreign \cup {IntV(1), Str_kw} } :
        Constructible(a) }

\* the names of the types in a value that _serialize has no case for
RECURSIVE ForeignTypes(_)
ForeignTypes(a) ==
    CASE a.t \in {"tuple", "list", "set", "frozenset"} ->
            UNION {ForeignTypes(a.v[i]) : i \in DOMAIN a.v}
      [] a.t = "dict" ->
            UNION {ForeignTypes(a.v[i][1]) \cup ForeignTypes(a.v[i][2]) : i \in DOMAIN a.v}
      [] a.t \in {"NoneType", "bool", "int", "float", "str", "datetime", "UUID"} -> {}
      [] OTHER -> {a.t}

InitWrite ==
    /\ pc = "dumps"
    /\ obj \in WriteUniverse
    /\ s = NoText
    /\ variant = NoText
    /\ max_depth = DefaultMaxDepth
    /\ shape = [kind |-> "write"]
    /\ out = NoOutcome
    /\ out2 = NoOutcome
    /\ Imported

SpecWrite == InitWrite /\ [][Dumps \/ Loads]_vars

\* C14: dumps of a value that is or holds, at any depth, a value of a type _serialize has no
\* case for (the Skip sentinel included) raises EDNParseError "Cannot serialize type <name>"
\* naming such a type, and returns no text.
C14_ClosedWorld ==
    (shape.kind = "write" /\ ForeignTypes(obj) /= {})
        => \/ pc = "dumps"
           \/ /\ pc = "done"
              /\ out.k = "raise"
              /\ out.exc = EDNParseError
              /\ out.msg = "Cannot serialize type"
              /\ out.ch \in ForeignTypes(obj)
              /\ s = NoText

C14_Witness ==
    /\ shape.kind = "write" /\ pc = "done"
    /\ obj = DictV(<< <<Str_k, V("set", <<SKIP>>)>> >>)
    /\ out.k = "raise"
    /\ out.ch = "_Skip"

----------------------------------------------------------------------------
(* dumps of maps keyed by plain strings *)

MaxKeys == 2

KeyNames == { StrV(<<"n", "a", "m", "e">>), StrV(<<"a", "g", "e">>), Str_k }

KeyedValues == { StrV(<<"A", "l", "i", "c", "e">>), IntV(30), NilV, Str_kw }

InitWriteMap ==
    /\ pc = "dumps"
    /\ \E ks \in SeqsUpTo(KeyNames, MaxKeys), vs \in SeqsUpTo(KeyedValues, MaxKeys) :
          /\ Len(ks) = Len(vs)
          /\ Distinct(ks)
          /\ obj = DictV([i \in DOMAIN ks |-> <<ks[i], vs[i]>>])
    /\ s = NoText
    /\ variant = NoText
    /\ max_depth = DefaultMaxDepth
    /\ shape = [kind |-> "write_map"]
    /\ out = NoOutcome
    /\ out2 = NoOutcome
    /\ Imported

SpecWriteMap == InitWriteMap /\ [][Dumps \/ Loads]_vars

\* the map text of the example in the docstring of dumps: each key as : and its text
KeywordKeyed(mapping) ==
    <<"{">> \o Join(<<" ">>, [i \in DOMAIN mapping |->
                                 <<":">> \o mapping[i][1].v \o <<" ">> \o _serialize(mapping[i][2]).text])
            \o <<"}">>

\* C15: dumps writes a map key that is a plain string not starting with : as a keyword, the
\* colon and the key text unquoted: {"name": "Alice", "age": 30} gives {:name "Alice" :age 30}.
C15_StringKeyAsKeyword ==
    (shape.kind = "write_map" /\ pc \in {"loads", "done"}) => s = KeywordKeyed(obj.v)

----------------------------------------------------------------------------
(* texts that end with constructs left open *)

MaxOpen == 2

Openers == { <<"[">>, <<"(">>, <<"#", "{">>, <<"{">> }

\* complete forms standing between an opening delimiter and what follows
Fillings == { <<>>, <<"1", " ">>, <<":", "a", " ", "\"", "x", "\"", ",">>, <<"#", "_", " ">>,
              <<"#", "f", "o", "o", " ", "2", " ", "\\", "a", " ">> }

\* the end of the text: what is cut, and the offset in it of a string left open (-1: none)
Cut(text, str) == [text |-> text, str |-> str]

Tails ==
    { Cut(<<>>, -1), Cut(<<"1", "2">>, -1), Cut(<<":", "k">>, -1), Cut(<<"\\", "a">>, -1),
      Cut(<<"#">>, -1), Cut(<<"#", "_">>, -1), Cut(<<"#", "f", "o", "o", " ">>, -1),
      Cut(<<";", " ", "c">>, -1), Cut(<<"\\">>, -1),
      Cut(<<"\"">>, 0), Cut(<<"\"", "a", "b">>, 0), Cut(<<"\"", "a", "\\">>, 0),
      Cut(<<"\"", "a", "\\", "\"">>, 0), Cut(<<"1", " ", "\"", "[">>, 2),
      Cut(<<"#", "i", "n", "s", "t", " ", "\"", "2", "0", "2", "3">>, 6) }

\* the text of the levels left open, outermost first
RECURSIVE OpenText(_)
OpenText(levels) ==
    IF levels = <<>> THEN <<>>
    ELSE levels[1][1] \o levels[1][2] \o OpenText(Tail(levels))

InitTruncated ==
    /\ pc = "loads"
    /\ obj = NoObj
    /\ \E n \in 0..MaxOpen :
          \E levels \in [1..n -> Openers \X Fillings], tail \in Tails :
             LET before == OpenText(levels)
                 outer == OpenText(SubSeq(levels, 1, n - 1))
             IN  /\ n = 0 => tail.str = 0    \* read_value reads the first form only
                 /\ s = before \o tail.text
                 /\ shape = [kind |-> "truncated",
                             opener |-> IF tail.str >= 0 THEN <<"\"">>
                                        ELSE IF n = 0 THEN <<>> ELSE levels[n][1],
                             open_at |-> IF tail.str >= 0 THEN Len(before) + tail.str
                                         ELSE IF n = 0 THEN -1
                                         ELSE Len(outer) + Len(levels[n][1]) - 1,
                             cut |-> tail.text]
    /\ variant = NoText
    /\ max_depth = DefaultMaxDepth
    /\ out = NoOutcome
    /\ out2 = NoOutcome
    /\ Imported

SpecTruncated == InitTruncated /\ [][Loads]_vars

\* what the message calls the construct a delimiter opens
UnterminatedOf(opener) ==
    CASE opener = <<"\"">> -> "Unterminated string"
      [] opener = <<"{">> -> "Unterminated map"
      [] OTHER -> "Unterminated collection"

\* the outcome the claim describes: EDNParseError "Unterminated ..." at the offset of the
\* opening delimiter of the innermost construct left open
RaisesUnterminated ==
    /\ out.k = "raise"
    /\ out.exc = EDNParseError
    /\ out.msg = UnterminatedOf(shape.opener)
    /\ out.at = shape.open_at

----------------------------------------------------------------------------
(* numeric tokens *)

MaxNumLen == 4

NumberChars == {"1", "2", ".", "e", "E", "-", "+"}

\* the condition of read_value under which read_number is called
StartsNumber(tok) ==
    /\ tok /= <<>>
    /\ \/ tok[1] \in Digits
       \/ tok[1] \in {"-", "+"} /\ Len(tok) >= 2 /\ (tok[2] \in Digits \/ tok[2] = ".")
       \/ tok[1] = "."

NumberTokens == { tok \in SeqsUpTo(NumberChars, MaxNumLen) : StartsNumber(tok) }

InitNumber ==
    /\ pc = "loads"
    /\ obj = NoObj
    /\ \E tok \in NumberTokens, in_vector \in BOOLEAN :
          /\ s = IF in_vector THEN <<"[">> \o tok \o <<"]">> ELSE tok
          /\ shape = [kind |-> "number", tok |-> tok, in_vector |-> in_vector]
    /\ variant = NoText
    /\ max_depth = DefaultMaxDepth
    /\ out = NoOutcome
    /\ out2 = NoOutcome
    /\ Imported

SpecNumber == InitNumber /\ [][Loads]_vars

Count(q, c) == Cardinality({i \in DOMAIN q : q[i] = c})

\* C17: a numeric token is read as an int when its text holds no ".", "e" or "E" and as a
\* float otherwise; a second "." in the token raises EDNParseError "Invalid number: multiple
\* decimal points" at the offset where the number began.
C17_NumberKind ==
    (shape.kind = "number" /\ pc = "done")
        => IF Count(shape.tok, ".") >= 2
           THEN /\ out.k = "raise"
                /\ out.exc = EDNParseError
                /\ out.msg = "Invalid number: multiple decimal points"
                /\ out.at = IF shape.in_vector THEN 1 ELSE 0
           ELSE /\ out.k = "ok"
                /\ LET val == IF shape.in_vector THEN out.val.v[1] ELSE out.val
                   IN  val.t = IF Range(shape.tok) \cap {".", "e", "E"} = {} THEN "int"
                               ELSE "float"

----------------------------------------------------------------------------
(* the failures of a read of bytes and of a read of text, side by side *)

MaxBytes == 4

ByteValues == {34, 49, 91, 93, 128, 169, 195, 255}

FailingTexts ==
    { <<"[", "[", "[", "1", "]", "]", "]">>, <<"{", "[", "(", ")", "]", " ", "1", "}">>,
      <<"[", "1", " ", "2">>, <<"1", ".", "2", ".", "3">>, <<"@">>, <<"\"", "a">>,
      <<"#", "i", "n", "s", "t", " ", "\"", "x", "\"">>, <<"[", "1", "]">> }

InitTaxonomy ==
    /\ pc = "loads_bytes"
    /\ obj \in { V("bytes", b) : b \in SeqsUpTo(ByteValues, MaxBytes) }
    /\ s \in FailingTexts
    /\ variant = NoText
    /\ max_depth = 2
    /\ shape = [kind |-> "taxonomy"]
    /\ out = NoOutcome
    /\ out2 = NoOutcome
    /\ Imported

SpecTaxonomy == InitTaxonomy /\ [][LoadsBytes \/ Loads]_vars

\* the failure a raised outcome is, by the place of the code that raised it
FailureOf(o) ==
    CASE o.msg = "Maximum nesting depth exceeded" -> "depth-limit"
      [] o.msg = "Invalid UTF-8 encoding" -> "encoding"
      [] OTHER -> "syntax"

\* what a caller can tell of an exception without reading its message
KindOf(o) == <<o.exc, o.cause>>

\* C18: a depth-limit failure, an encoding failure and a syntax failure are reported as
\* distinguishable kinds: two reads that fail in different ways raise exceptions that differ
\* in something other than the message text.
C18_KindsDistinguishable ==
    (shape.kind = "taxonomy" /\ pc = "done" /\ out.k = "raise" /\ out2.k = "raise"
        /\ FailureOf(out) /= FailureOf(out2))
        => KindOf(out) /= KindOf(out2)

----------------------------------------------------------------------------
(* two reads side by side *)

ConcurrentDepth == 2

ConcurrentTexts ==
    { <<"5">>, <<"[", "1", " ", "[", "2", "]", "]">>, <<"[", "[", "[", "1", "]", "]", "]">>,
      <<"{", ":", "a", " ", "[", "1", "]", "}">>, <<"{", "(", ")", " ", "2", ",", "}">>,
      <<"#", "{", "1", " ", "(", "2", ")", "}">>, <<"[", "1", " ", "{", "2">>,
      <<"{", "{", "}", " ", "1", "}">>, <<"[", "#", "f", "o", "o", " ", "[", "1", "]", " ", "2", "]">>,
      <<"(", "(", ")", " ", "[", "]", " ", "#", "{", "}", " ", "{", "}", ")">>,
      <<"{", "1", " ", "#", "_", " ", "2", " ", "3", "}">>, <<"[", "]", " ", "[">> }

InitConcurrent ==
    /\ pc = "start"
    /\ obj = NoObj
    /\ s \in ConcurrentTexts
    /\ variant \in ConcurrentTexts
    /\ max_depth = ConcurrentDepth
    /\ shape = [kind |-> "concurrent"]
    /\ out = NoOutcome
    /\ out2 = NoOutcome
    /\ Imported

NextConcurrent == StartReaders \/ \E i \in 1..2 : ReaderStep(i)

SpecConcurrent == InitConcurrent /\ [][NextConcurrent]_vars

\* the same outcome: the same value, or the same exception with the same message and offset
SameOutcome(a, b) ==
    /\ a.k = b.k
    /\ a.k = "ok" => a.val = b.val
    /\ a.k = "raise" => <<a.exc, a.msg, a.at, a.lim, a.ch>> = <<b.exc, b.msg, b.at, b.lim, b.ch>>

\* C19: two reads with their steps interleaved in any order, each reader with its own cursor
\* and depth counter and the registry not mutated: each returns or raises what loads of its
\* text does alone.
C19_ReadsIndependent ==
    (shape.kind = "concurrent" /\ pc = "running")
        => /\ threads[1].out.k /= "none"
                => SameOutcome(threads[1].out, loads(s, max_depth, ResolveRegistry(0)))
           /\ threads[2].out.k /= "none"
                => SameOutcome(threads[2].out, loads(variant, max_depth, ResolveRegistry(0)))

\* reader 1 read two levels deep, to the limit, while reader 2 had two collections open
C19_Witness ==
    /\ shape.kind = "concurrent" /\ pc = "running"
    /\ s = <<"[", "1", " ", "[", "2", "]", "]">>
    /\ threads[1].out.k = "ok"
    /\ threads[1].out.val = TupleV(<<IntV(1), TupleV(<<IntV(2)>>)>>)
    /\ threads[2].out.k = "none"
    /\ Len(threads[2].frames) = 2
    /\ depths = <<0, 2>>

----------------------------------------------------------------------------
(* a text and the same tokens with more whitespace, a comma or a comment between two *)

MaxSepTokens == 4

SepTokens ==
    { <<"[">>, <<"]">>, <<"{">>, <<"}">>, tok_discard, tok_unknown, <<"1">>, tok_kw,
      <<"\\", "n", "e", "w", "l", "i", "n", "e">> }

Separators == { <<" ">>, <<"\n">>, <<",">>, <<";", "c", "\n">>, <<",", "\t", ";", "\n", " ">> }

\* tokens joined as a writer would: nothing after an opening or before a closing delimiter,
\* one space elsewhere; extra is put after the first idx tokens
Spaced(toks, idx, extra) ==
    Join(<<>>, [i \in 1..(2 * Len(toks) + 1) |->
                  IF i % 2 = 0 THEN toks[i \div 2]
                  ELSE LET n == i \div 2    \* the gap after n tokens
                           gap == IF n = 0 \/ n = Len(toks) THEN <<>>
                                  ELSE IF toks[n] \in {<<"[">>, <<"{">>}
                                          \/ toks[n + 1] \in {<<"]">>, <<"}">>} THEN <<>>
                                  ELSE <<" ">>
                       IN  IF n = idx THEN gap \o extra ELSE gap])

InitSeparators ==
    /\ pc = "loads"
    /\ obj = NoObj
    /\ \E toks \in SeqsUpTo(SepTokens, MaxSepTokens) :
       \E idx \in 0..Len(toks) :
       \E sep \in Separators :
          /\ s = Spaced(toks, -1, <<>>)
          /\ variant = Spaced(toks, idx, sep)
          /\ shape = [kind |-> "separators", toks |-> toks, idx |-> idx, sep |-> sep]
    /\ max_depth = DefaultMaxDepth
    /\ out = NoOutcome
    /\ out2 = NoOutcome
    /\ Imported

SpecSeparators == InitSeparators /\ [][Loads \/ LoadsVariant]_vars

\* C20: whitespace, commas and comments are insignificant between tokens: with a space, a tab,
\* a newline, a comma or a ;-comment ended by a newline put between two tokens (a tag or #_
\* and its payload, a map key and its value included), the read has the same result: the same
\* value, or the same exception with the same message.
C20_SeparatorsInsignificant ==
    (shape.kind = "separators" /\ pc = "done")
        => /\ out2.k = out.k
           /\ out.k = "ok" => out2.val = out.val
           /\ out.k = "raise" => <<out2.exc, out2.msg, out2.ch>> = <<out.exc, out.msg, out.ch>>

C20_Witness ==
    /\ shape.kind = "separators" /\ pc = "done"
    /\ shape.toks = << <<"{">>, tok_kw, <<"1">>, <<"}">> >>
    /\ variant = <<"{", ":", "a", " ", ";", "c", "\n", "1", "}">>
    /\ out2.k = "ok"
    /\ out2.val = DictV(<< <<StrV(tok_kw), IntV(1)>> >>)

----------------------------------------------------------------------------
(* two read_value calls on one reader: a form that returns or raises, then a nested form *)

ReuseDepth == 2

\* the first form: forms that return, at every nesting up to the limit, and forms that raise
FirstForms ==
    { <<"1">>, <<"[", "1", "]">>, <<"[", "{", ":", "a", " ", "(", ")", "}", "]">>,
      <<"#", "{", "[", "1", "]", "}">>, <<"{", "[", "]", " ", "1", "}">>,
      <<"[", "1", " ", "@">>, <<"[", "[", "\"", "a">>, <<"{", "#", "{", "1", ".", "2", ".", "3">>,
      <<"[", "(", "1", "e">>, <<"{", "[", "#", "i", "n", "s", "t", " ", "\"", "x", "\"">>,
      <<"[", "[", "[">>, <<"[", "{", "(">>, <<"{", "{", "{">>, <<"[", "#", "{", "[">>,
      <<"[", "[", "]", " ", "[", "{">> }

\* the form the second call reads, with the number of collections it nests
LaterForms ==
    << Form(<<"7">>, 0), Form(<<"[", "7", "]">>, 1), Form(<<"[", "[", "7", "]", "]">>, 2),
       Form(<<"{", ":", "a", " ", "#", "{", "7", "}", "}">>, 2),
       Form(<<"[", "[", "[", "7", "]", "]", "]">>, 3) >>

InitReuse ==
    /\ pc = "new_reader"
    /\ obj = NoObj
    /\ \E first \in FirstForms, n \in DOMAIN LaterForms :
          /\ s = first \o <<" ">> \o LaterForms[n].text
          /\ variant = LaterForms[n].text
          /\ shape = [kind |-> "reuse", first |-> first, nesting |-> LaterForms[n].val]
    /\ max_depth \in 1..ReuseDepth
    /\ out = NoOutcome
    /\ out2 = NoOutcome
    /\ Imported

SpecReuse == InitReuse /\ [][NewReader \/ ReadValue]_vars

\* C21: the reader's depth counter after a read_value call, whether it returned or raised
\* (a depth-limit error included), is what it was before the call, 0 for a reader just made;
\* so a second call on the reader reads what a reader with a counter of 0 reads from there,
\* forms nested max_depth deep included.
C21_DepthRestored ==
    shape.kind = "reuse"
        => /\ \A i \in DOMAIN depths : depths[i] = 0
           /\ pc = "done"
                => SameOutcome(out2, read_value([out.rd EXCEPT !.current_depth = 0]))

----------------------------------------------------------------------------
(* reads of tagged forms while the registry changes: by calls between two reads and by
   handlers during a read *)

MaxChain == 2         \* the most tags in front of one payload
MaxLookupCalls == 2   \* register and unregister calls made around the two reads

tag_on == <<"o", "n">>
tag_off == <<"o", "f", "f">>

LookupTags == {tag_double, tag_on, tag_off}

\* the handler a tag is registered with
LookupHandler(tag) ==
    CASE tag = tag_double -> "double_handler"
      [] tag = tag_on -> "on_handler"
      [] tag = tag_off -> "off_handler"

\* the tags in front of the second element of the vector, when there is one
SiblingChains == { <<tag_double>>, <<tag_off>>, <<tag_on, tag_double>> }

\* the payloads of the first and of the second element
LookupPayloads == << <<"3">>, <<"5">> >>
LookupValues == << IntV(3), IntV(5) >>

\* the tags of chain, outermost first, then the payload
RECURSIVE ChainText(_, _)
ChainText(chain, payload) ==
    IF chain = <<>> THEN payload
    ELSE <<"#">> \o Head(chain) \o <<" ">> \o ChainText(Tail(chain), payload)

LookupText(form) ==
    <<"[">> \o Join(<<" ">>, [i \in DOMAIN form |-> ChainText(form[i], LookupPayloads[i])])
            \o <<"]">>

InitLookup ==
    /\ pc = "registry"
    /\ obj = NoObj
    /\ \E first \in SeqsUpTo(LookupTags, MaxChain) :
       \E form \in {<<first>>} \cup {<<first, second>> : second \in SiblingChains} :
          /\ s = LookupText(form)
          /\ shape = [kind |-> "lookup", max_regs |-> 1, max_calls |-> MaxLookupCalls,
                      form |-> form]
    /\ variant = NoText
    /\ max_depth = DefaultMaxDepth
    /\ out = NoOutcome
    /\ out2 = NoOutcome
    /\ Imported

NextLookup ==
    \/ \E tag \in LookupTags : Register(1, tag, LookupHandler(tag))
    \/ \E tag \in LookupTags : Unregister(1, tag)
    \/ ReadActive

SpecLookup == InitLookup /\ [][NextLookup]_vars

\* one element handled as the claim says: the tags innermost first, each looked up once in
\* the registry as it is then, after the payload (ending at offset end) is read
RECURSIVE HandledChain(_, _, _, _)
HandledChain(chain, reg, val, end) ==
    IF chain = <<>> THEN [reg |-> reg, val |-> val, lookups |-> <<>>]
    ELSE LET inner == HandledChain(Tail(chain), reg, val, end)
             handler == get_handler(inner.reg, Head(chain))
             r == IF handler = None THEN Ok([NoReader EXCEPT !.tag_registry = inner.reg], SKIP)
                  ELSE CallHandler(handler, [NoReader EXCEPT !.tag_registry = inner.reg],
                                   inner.val, 0)
         IN  [reg |-> r.rd.tag_registry, val |-> r.val,
              lookups |-> Append(inner.lookups, [tag |-> Head(chain), pos |-> end])]

\* the elements of form from the i-th on, the text before them being of length at
RECURSIVE HandledForm(_, _, _, _)
HandledForm(form, i, reg, at) ==
    IF i > Len(form) THEN [reg |-> reg, vals |-> <<>>, lookups |-> <<>>]
    ELSE LET end == at + Len(ChainText(form[i], LookupPayloads[i]))
             e == HandledChain(form[i], reg, LookupValues[i], end)
             rest == HandledForm(form, i + 1, e.reg, end + 1)
         IN  [reg |-> rest.reg,
              vals |-> (IF e.val = SKIP THEN <<>> ELSE <<e.val>>) \o rest.vals,
              lookups |-> e.lookups \o rest.lookups]

\* C22: every read looks each tag occurrence up once, after its payload is read to the end
\* and in the registry as it is at that moment: calls made between two reads and changes
\* made by the handlers of nested or earlier tags decide; nested tags are handled first.
C22_LookupAfterPayload ==
    [][(shape.kind = "lookup" /\ (out' /= out \/ out2' /= out2)) =>
          LET o == IF out' /= out THEN out' ELSE out2'
              e == HandledForm(shape.form, 1, HandlersOf(1), 1)
          IN  /\ o.k = "ok"
              /\ o.val = TupleV(e.vals)
              /\ o.rd.lookups = e.lookups
              /\ heap'[regs[1]._handlers] = e.reg]_vars

\* #double was not registered when its name was read: the handler of the nested #on
\* registered it; with on unregistered before the second read the element is dropped
C22_Witness ==
    /\ shape.kind = "lookup" /\ pc = "done"
    /\ s = <<"[", "#", "d", "o", "u", "b", "l", "e", " ", "#", "o", "n", " ", "3", "]">>
    /\ Len(calls) = 2
    /\ calls[1].op = "register" /\ calls[1].tag = tag_on
    /\ calls[2].op = "unregister" /\ calls[2].tag = tag_on
    /\ out.k = "ok" /\ out.val = TupleV(<<IntV(6)>>)
    /\ out.rd.lookups = << [tag |-> tag_on, pos |-> 14], [tag |-> tag_double, pos |-> 14] >>
    /\ out2.k = "ok" /\ out2.val = TupleV(<<>>)

----------------------------------------------------------------------------
(* dumps then loads of strings holding the characters the writer escapes *)

MaxStrLen == 4

StringChars == {"a", "n", "t", " ", ":", "\\", "\"", "\n", "\r", "\t"}

\* the strings that do not begin with :
PlainStrings == { q \in SeqsUpTo(StringChars, MaxStrLen) : q = <<>> \/ Head(q) /= ":" }

\* the string alone, as the item of a vector, as the key of a map
StringWraps == {"alone", "item", "key"}

StringIn(wrap, q) ==
    CASE wrap = "alone" -> StrV(q)
      [] wrap = "item" -> TupleV(<<StrV(q), IntV(1)>>)
      [] wrap = "key" -> DictV(<< <<StrV(q), IntV(1)>> >>)

InitString ==
    /\ pc = "dumps"
    /\ \E q \in PlainStrings, wrap \in StringWraps :
          /\ obj = StringIn(wrap, q)
          /\ shape = [kind |-> "string", str |-> q, wrap |-> wrap]
    /\ s = NoText
    /\ variant = NoText
    /\ max_depth = DefaultMaxDepth
    /\ out = NoOutcome
    /\ out2 = NoOutcome
    /\ Imported

SpecString == InitString /\ [][Dumps \/ Loads]_vars

\* one character as it stands between the quotes: escaped once if it is one of the five
EscapeOnce(c) ==
    CASE c = "\\" -> <<"\\", "\\">>
      [] c = "\"" -> <<"\\", "\"">>
      [] c = "\n" -> <<"\\", "n">>
      [] c = "\r" -> <<"\\", "r">>
      [] c = "\t" -> <<"\\", "t">>
      [] OTHER -> <<c>>

Quoted(q) == <<"\"">> \o Join(<<>>, [i \in DOMAIN q |-> EscapeOnce(q[i])]) \o <<"\"">>

\* C23: a string that does not begin with : is written between quotes with each backslash,
\* quote, newline, carriage return and tab escaped exactly once, and reads back as itself.
C23_StringRoundTrip ==
    (shape.kind = "string" /\ pc \in {"loads", "done"})
        => /\ s = (CASE shape.wrap = "alone" -> Quoted(shape.str)
                     [] shape.wrap = "item" -> <<"[">> \o Quoted(shape.str) \o <<" ", "1", "]">>
                     [] shape.wrap = "key" -> <<"{">> \o Quoted(shape.str) \o <<" ", "1", "}">>)
           /\ pc = "done" => (out.k = "ok" /\ out.val = obj)

C23_Witness ==
    /\ shape.kind = "string" /\ pc = "done"
    /\ shape.str = <<"\\", "n", "\"", "\n">>
    /\ s = <<"\"", "\\", "\\", "n", "\\", "\"", "\\", "n", "\"">>
    /\ out.k = "ok"
    /\ out.val = StrV(<<"\\", "n", "\"", "\n">>)

----------------------------------------------------------------------------
(* a malformed construct in a value that is dropped, and the same construct elsewhere *)

DroppedDepth == 2

\* what stands before the construct: the text, the collections it leaves open, and whether
\* the value that follows is dropped (behind #_ or as the payload of an unknown tag)
Before(text, opens, dropped) == [text |-> text, opens |-> opens, dropped |-> dropped]

Befores ==
    { Before(<<>>, 0, FALSE),
      Before(<<"[", "1", " ">>, 1, FALSE),
      Before(<<"{", ":", "a", " ", "(">>, 2, FALSE),
      Before(tok_discard \o <<" ">>, 0, TRUE),
      Before(tok_unknown \o <<" ">>, 0, TRUE),
      Before(<<"[", "1", " ">> \o tok_discard, 1, TRUE),
      Before(<<"{", ":", "a", " ">> \o tok_unknown \o <<" ">>, 1, TRUE),
      Before(tok_discard \o <<" ">> \o tok_unknown \o <<" ">>, 0, TRUE),
      Before(tok_unknown \o <<" ">> \o tok_discard \o <<" ", "1", " ">>, 0, TRUE),
      Before(<<"[">> \o tok_discard \o <<" ", "#", "{">>, 2, TRUE),
      Before(<<"#", "{">> \o tok_unknown \o <<" ", "[", "1", " ">>, 2, TRUE) }

RECURSIVE Repeat(_, _)
Repeat(c, n) == IF n <= 0 THEN <<>> ELSE <<c>> \o Repeat(c, n - 1)

\* a construct with the error it raises: the message, the offset in the construct, the limit,
\* the character
Malformed(text, msg, at, lim, ch) == [text |-> text, msg |-> msg, at |-> at, lim |-> lim, ch |-> ch]

\* the constructs: those that open no collection, those that open one (where the limit md
\* leaves room for it behind opens open collections), and one nested a level deeper than
\* the limit leaves room for
MalformedAfter(opens, md) ==
    { Malformed(<<"\"", "a", "b">>, "Unterminated string", 0, -1, ""),
      Malformed(<<"1", ".", "2", ".", "3">>, "Invalid number: multiple decimal points", 0, -1, ""),
      Malformed(<<"#">> \o tag_inst \o <<" ", "\"", "x", "\"">>, "Invalid datetime format", 0, -1, ""),
      Malformed(<<"@">>, "Unexpected character", 0, -1, "@"),
      Malformed(Repeat("[", md + 1 - opens) \o <<"1">> \o Repeat("]", md + 1 - opens),
                "Maximum nesting depth exceeded", md - opens, md, "") }
    \cup (IF opens < md
          THEN { Malformed(<<"[", "1", " ", "\"", "a">>, "Unterminated string", 3, -1, ""),
                 Malformed(<<"(", ".", "5", ".">>, "Invalid number: multiple decimal points", 1,
                           -1, "") }
          ELSE {})

\* what follows the construct (it ends no string)
Afters == { <<>>, <<" ", "2", "]">> }

InitDropped ==
    /\ pc = "loads"
    /\ obj = NoObj
    /\ max_depth = DroppedDepth
    /\ \E before \in Befores, after \in Afters :
       \E m \in MalformedAfter(before.opens, max_depth) :
          /\ s = before.text \o m.text \o after
          /\ shape = [kind |-> "dropped", before |-> before, m |-> m]
    /\ variant = NoText
    /\ out = NoOutcome
    /\ out2 = NoOutcome
    /\ Imported

SpecDropped == InitDropped /\ [][Loads]_vars

\* C24: a malformed construct raises the parse error it raises elsewhere, with its message
\* and the offset where it began, also when it stands in the value behind #_ or in the
\* payload of an unknown tag; the handler of #inst inside a dropped value is looked up and
\* called.
C24_ErrorInDroppedForm ==
    (shape.kind = "dropped" /\ pc = "done")
        => /\ out.k = "raise"
           /\ out.exc = EDNParseError
           /\ out.msg = shape.m.msg
           /\ out.at = Len(shape.before.text) + shape.m.at
           /\ out.lim = shape.m.lim
           /\ out.ch = shape.m.ch
           /\ shape.m.msg = "Invalid datetime format"
                => /\ out.rd.lookups /= <<>>
                   /\ out.rd.lookups[Len(out.rd.lookups)].tag = tag_inst

C24_Witness ==
    /\ shape.kind = "dropped" /\ pc = "done"
    /\ shape.before.dropped
    /\ s = <<"[", "1", " ", "#", "_", "#", "i", "n", "s", "t", " ", "\"", "x", "\"", " ", "2", "]">>
    /\ out.k = "raise"
    /\ out.msg = "Invalid datetime format"
    /\ out.at = 5

----------------------------------------------------------------------------
(* a closing delimiter that closes nothing or the wrong collection, and @ *)

MaxMismatch == 2   \* the most collections open where the character stands

Closers == {"]", ")", "}"}

\* the delimiter that closes what opener opens
CloserOf(opener) ==
    CASE opener = <<"[">> -> "]"
      [] opener = <<"(">> -> ")"
      [] OTHER -> "}"

\* what follows the character
MismatchTails == { <<>>, <<" ", "1", "]", ")", "}">> }

InitMismatch ==
    /\ pc = "loads"
    /\ obj = NoObj
    /\ \E n \in 0..MaxMismatch :
          \E levels \in [1..n -> Openers \X Fillings], tail \in MismatchTails :
             \E c \in {"@"} \cup (Closers \ (IF n = 0 THEN {} ELSE {CloserOf(levels[n][1])})) :
                /\ s = OpenText(levels) \o <<c>> \o tail
                /\ shape = [kind |-> "mismatch", c |-> c, at |-> Len(OpenText(levels)),
                            open |-> IF n = 0 THEN <<>> ELSE levels[n][1]]
    /\ variant = NoText
    /\ max_depth = DefaultMaxDepth
    /\ out = NoOutcome
    /\ out2 = NoOutcome
    /\ Imported

SpecMismatch == InitMismatch /\ [][Loads]_vars

\* C25: where a value must start, a closing delimiter other than the one of the innermost
\* open collection (any, with none open) and @ raise EDNParseError "Unexpected character"
\* naming the character and its offset.
C25_MismatchedCloser ==
    (shape.kind = "mismatch" /\ pc = "done")
        => /\ out.k = "raise"
           /\ out.exc = EDNParseError
           /\ out.msg = "Unexpected character"
           /\ out.ch = shape.c
           /\ out.at = shape.at

\* a set in a vector, closed by ] behind a value
C25_Witness ==
    /\ shape.kind = "mismatch" /\ pc = "done"
    /\ s = <<"[", "1", " ", "#", "{", "1", " ", "]">>
    /\ out.k = "raise"
    /\ out.msg = "Unexpected character"
    /\ out.ch = "]"
    /\ out.at = 7

----------------------------------------------------------------------------
(* the methods of one reader called in any order: the cursor *)

CursorDepth == 2   \* max_depth of the reader

Methods ==
    { "peek", "read", "skip_whitespace_and_comments", "_read_string", "read_symbol_or_keyword",
      "read_number", "_read_char", "_read_keyword", "read_value" }

CursorTexts ==
    { <<>>, <<"\\">>, <<"\"", "a", "\\">>, <<"-">>, <<"+", ".">>, <<"#">>, <<"#", "_">>,
      <<";", "c">>, <<" ", ",", "\t">>, <<"\\", "s", "p", "a", "c">>,
      <<"\\", "n", "e", "w", "l", "i", "n", "e">>,
      <<"[", "1", " ", "\"", "a", "\\", "\"", "\"", "]">>,
      <<"#", "{", "1", ".", "5", " ", ":", "k", "}">>,
      <<"{", ":", "a", ";", "c", "\n", "#", "_", "2", " ", "t", "}">>,
      <<"[", "[", "[", "1", "]", "]", "]">>,
      <<"(", "#", "f", "o", "o", " ", "-", "1", "e", "2", ")", "@">> }

InitCursor ==
    /\ pc = "new_reader"
    /\ obj = NoObj
    /\ s \in CursorTexts
    /\ variant = NoText
    /\ max_depth = CursorDepth
    /\ shape = [kind |-> "cursor", method |-> "__init__"]
    /\ out = NoOutcome
    /\ out2 = NoOutcome
    /\ Imported

NextCursor == NewReader \/ \E m \in Methods : Call(m)

SpecCursor == InitCursor /\ [][NextCursor]_vars

\* C26: after the construction of a reader and after every call of one of its methods the
\* source is the text it was made with, 0 <= pos <= length, and pos is not below what it was
\* before the call; peek and read at pos = length return None and leave pos there.
C26_CursorInvariant ==
    [][shape.kind = "cursor" =>
          LET after == threads'[1].rd
          IN  /\ after.s = s /\ s' = s
              /\ after.length = Len(s)
              /\ 0 <= after.pos /\ after.pos <= after.length
              /\ threads /= <<>> =>
                    LET before == threads[1].rd
                    IN  /\ after.pos >= before.pos
                        /\ (before.pos = before.length /\ shape'.method \in {"peek", "read"})
                              => (out'.k = "ok" /\ out'.val = NilV /\ after.pos = before.pos)]_vars

\* read() at the end of a text read through: None, and the cursor stays
C26_Witness ==
    /\ shape.kind = "cursor"
    /\ pc = "read_value"
    /\ shape.method = "read"
    /\ s = <<"\"", "a", "\\">>
    /\ threads[1].rd.pos = 3
    /\ out.k = "ok" /\ out.val = NilV

----------------------------------------------------------------------------
(* C27: termination of a read *)

MaxTurnTokens == 3
TurnDepth == 2

\* a string that ends on an escape, a comment without its newline, a keyword behind a newline
tok_open_str == <<"\"", "a", "\\">>
tok_comment == <<";", "c">>
tok_line_kw == <<"\n", ":", "k">>

TurnTokens ==
    { <<"[">>, <<"]">>, <<"{">>, <<"}">>, tok_discard, tok_unknown, <<"#">> \o tag_inst,
      tok_open_str, <<"-", "1", "5">>, <<"1", ".", "e">>, tok_comment, tok_line_kw }

InitTurns ==
    /\ pc = "start_read"
    /\ obj = NoObj
    /\ s \in {TextOf(toks) : toks \in SeqsUpTo(TurnTokens, MaxTurnTokens)}
    /\ variant = NoText
    /\ max_depth = TurnDepth
    /\ shape = [kind |-> "turns"]
    /\ out = NoOutcome
    /\ out2 = NoOutcome
    /\ Imported

NextTurns == StartRead \/ ReadTurn

\* the interpreter keeps running the call it is in
SpecTermination == InitTurns /\ [][NextTurns]_vars /\ WF_vars(NextTurns)

\* the turn of a loop that the step from th to th2 ends with the loop going on moved the cursor
TurnAdvances(th, th2) ==
    LET n == Len(th.stack)
        f == th.stack[n]
        same == Len(th2.stack) = n /\ th2.stack[n].kind = f.kind
    IN  /\ (f.kind \in {"skip", "comment", "string", "symbol", "number"} /\ same)
              => th2.rd.pos > th.rd.pos
        /\ (f.kind = "comment" /\ Len(th2.stack) = n - 1)
              => th2.rd.pos > th.stack[n - 1].turn_pos
        /\ (f.kind \in {"collection", "map"} /\ same /\ f.stage /= 0 /\ th2.stack[n].stage = 0)
              => th2.rd.pos > f.turn_pos

\* the read has returned or raised
Finished == pc = "reading" /\ threads[1].out.k /= "none"

\* C27: a read of a finite text under a registry whose handlers return eventually returns
\* or raises, with the outcome and the cursor loads of the text gives; every turn of the
\* collection, map, string, symbol, number and whitespace/comment loops moves the cursor
\* forward by at least one character or ends the loop.
C27_Termination ==
    /\ [][(pc = "reading" /\ threads' /= threads) => TurnAdvances(threads[1], threads'[1])]_vars
    /\ <>Finished
    /\ [](Finished => \E o \in {loads(s, max_depth, ResolveRegistry(0))} :
                         /\ SameOutcome(threads[1].out, o)
                         /\ threads[1].rd.pos = o.rd.pos
                         /\ threads[1].rd.current_depth = o.rd.current_depth)

\* a read that returned after turns of the whitespace, collection and number loops
C27_Witness ==
    /\ Finished
    /\ threads[1].out.k = "ok"
    /\ s = TextOf(<< <<"[">>, <<"-", "1", "5">>, <<"]">> >>)

----------------------------------------------------------------------------
(* C28: a read takes one value and leaves the text behind it alone *)

MaxRest == 2

\* complete values, none a discard form: strings, collections, words, numbers, characters,
\* tagged forms, some behind separators or a comment
OneValues ==
    { <<"\"", "a", "\"">>, <<"\"", "a", "\\", "\"", "b", "\"">>, <<"\"", "\"">>,
      <<"[", "1", " ", "2", "]">>, <<"(", "1", ")">>, <<"[", "]">>,
      <<"{", ":", "a", " ", "1", "}">>, <<"#", "{", "1", " ", "2", "}">>,
      <<"[", "[", "1", "]", " ", "{", "2", " ", "3", "}", "]">>, <<":", "a">>, <<":">>,
      <<"a", "b", "c">>, <<"-">>, <<"+", "x">>, <<"7">>, <<"-", "1", "5">>, <<"1", ".", "5">>,
      <<"n", "i", "l">>, <<"t", "r", "u", "e">>, <<"f", "a", "l", "s", "e">>,
      <<"t", "a", "i", "l">>, <<"\\", "a">>, <<"\\", "n", "e", "w", "l", "i", "n", "e">>,
      <<"\\", "s", "p", "a", "c", "e">>, <<"\\", "\\">>,
      <<"#", "d", "b", "/", "f", "n", " ", "\"", "x", "\"">>, <<"#", "f", "o", "o", " ", "1">>,
      <<"#", "f", "o", "o", " ", "[", "1", "]">>,
      <<"#", "d", "b", "/", "f", "n", " ", "{", ":", "a", " ", "1", "}">>,
      <<" ", ";", "c", "\n", " ", "7">>, <<"[", "1", " ", ";", "c", "\n", "]">>, <<",", "7">>,
      <<"#", "f", "o", "o", " ", "#", "_", " ", "1", " ", "2">>,
      <<"[", "#", "_", " ", "1", " ", "2", "]">> }

\* what may stand behind the delimiter that follows the value
RestChars == {"@", "]", "}", "\"", "#", "1"}

\* s is a value, a delimiter and any text; variant is the value and one space
InitOneValue ==
    /\ pc = "loads"
    /\ obj = NoObj
    /\ \E value \in OneValues, d \in Delimiters, rest \in SeqsUpTo(RestChars, MaxRest) :
          /\ s = value \o <<d>> \o rest
          /\ variant = value \o <<" ">>
          /\ shape = [kind |-> "one_value", value |-> value, rest |-> rest]
    /\ max_depth = DefaultMaxDepth
    /\ out = NoOutcome
    /\ out2 = NoOutcome
    /\ Imported

SpecOneValue == InitOneValue /\ [][Loads \/ LoadsVariant]_vars

\* C28: a read of a text that starts with a complete value, not a discard form, followed by
\* a delimiter returns the value and leaves the cursor where it does when one space follows
\* the value, at or before the delimiter, whatever stands behind the delimiter.
C28_OneValue ==
    (shape.kind = "one_value" /\ pc = "done")
        => /\ out.k = "ok"
           /\ SameOutcome(out, out2)
           /\ out.rd.pos = out2.rd.pos
           /\ out.rd.pos <= Len(shape.value)

\* a value read in front of an unmatched bracket and a character no value starts with
C28_Witness ==
    /\ shape.kind = "one_value"
    /\ pc = "done"
    /\ out.k = "ok"
    /\ shape.rest = <<"]", "@">>

----------------------------------------------------------------------------
(* C29: a key that a map literal repeats *)

MaxRepeat == 3

\* keys: a keyword, 1 and the 1.0 equal to it, a vector, a map, a form under an unknown tag
RepeatKeys ==
    { Form(tok_kw, StrV(tok_kw)),
      Form(<<"1">>, IntV(1)),
      Form(<<"1", ".", "0">>, FloatV(1, 0)),
      Form(<<"{", "}">>, DictV(<<>>)),
      Form(tok_unknown \o <<" ", ":", "a">>, SKIP) }

RepeatValues ==
    { Form(<<"1">>, IntV(1)),
      Form(<<"2">>, IntV(2)),
      Form(tok_unknown \o <<" ", "7">>, SKIP) }

InitRepeat ==
    /\ pc = "loads"
    /\ obj = NoObj
    /\ \E pairs \in SeqsUpTo(RepeatKeys \X RepeatValues, MaxRepeat) :
          /\ s = <<"{">> \o Join(<<" ">>, PairTexts(pairs)) \o <<"}">>
          /\ shape = [kind |-> "repeat", pairs |-> pairs]
    /\ variant = NoText
    /\ max_depth = DefaultMaxDepth
    /\ out = NoOutcome
    /\ out2 = NoOutcome
    /\ Imported

SpecRepeat == InitRepeat /\ [][Loads]_vars

\* pair i of pairs is not dropped: neither its key nor its value is under an unknown tag
Kept(pairs, i) == pairs[i][1].val /= SKIP /\ pairs[i][2].val /= SKIP

\* the map literal of pairs writes a key twice
Repeats(pairs) ==
    \E i, j \in DOMAIN pairs :
        i < j /\ pairs[i][1].val /= SKIP /\ PyEq(pairs[i][1].val, pairs[j][1].val)

\* entries holds, for each key of a pair that is kept, one entry, with the value of the last
\* kept pair of that key, and no other entry
LastKept(pairs, entries) ==
    /\ \A i \in DOMAIN pairs :
          Kept(pairs, i)
              => Cardinality({e \in DOMAIN entries : PyEq(entries[e][1], pairs[i][1].val)}) = 1
    /\ \A e \in DOMAIN entries :
          \E i \in DOMAIN pairs :
              /\ Kept(pairs, i)
              /\ PyEq(pairs[i][1].val, entries[e][1])
              /\ entries[e][2] = pairs[i][2].val
              /\ \A j \in DOMAIN pairs :
                    (j > i /\ Kept(pairs, j)) => ~PyEq(pairs[j][1].val, pairs[i][1].val)

\* C29: the read of a map literal that repeats a key does not raise, and the map has one
\* entry for each key, with the value of the last occurrence that is not dropped as Skip;
\* a dropped pair neither overwrites nor removes an entry.
C29_RepeatedKey ==
    (shape.kind = "repeat" /\ pc = "done" /\ Repeats(shape.pairs))
        => /\ out.k = "ok"
           /\ out.val.t = "dict"
           /\ LastKept(shape.pairs, out.val.v)

----------------------------------------------------------------------------
(* C30: the discard form and the registry *)

MaxDiscardCalls == 2

\* the tags registered or unregistered before and between the reads, and the handlers
DiscardTags == {tag_discard, tag_double}
DiscardHandlers == {"double_handler", "_handle_inst", "_handle_db_fn"}

\* the forms dropped, the forms behind them, and what stands between #_ and the form dropped
DroppedForms ==
    { <<"1">>, <<"f", "o", "o">>, <<"[", "1", " ", "2", "]">>, tok_unknown \o <<" ", "1">>,
      <<"#">> \o tag_double \o <<" ", "3">>, tok_discard \o <<" ", "1", " ", "2">>,
      tok_str, <<"{", ":", "a", " ", "1", "}">> }

NextForms == { <<"2">>, tok_kw, <<"#">> \o tag_double \o <<" ", "2">>, <<"[", "3", "]">> }

\* s holds #_ dropped next, alone or in a vector; kept is s without the discard form
InitDiscardRegistry ==
    /\ pc = "registry"
    /\ obj = NoObj
    /\ \E dropped \in DroppedForms, next \in NextForms, gap \in {<<>>, <<" ">>},
          wrap \in BOOLEAN :
          LET form == tok_discard \o gap \o dropped \o <<" ">> \o next
          IN  /\ s = IF wrap THEN <<"[", "0", " ">> \o form \o <<"]">> ELSE form
              /\ shape = [kind |-> "discard_registry", max_regs |-> 1,
                          max_calls |-> MaxDiscardCalls,
                          kept |-> IF wrap THEN <<"[", "0", " ">> \o next \o <<"]">> ELSE next]
    /\ variant = NoText
    /\ max_depth = DefaultMaxDepth
    /\ out = NoOutcome
    /\ out2 = NoOutcome
    /\ Imported

NextDiscardRegistry ==
    \/ \E tag \in DiscardTags, handler \in DiscardHandlers : Register(1, tag, handler)
    \/ \E tag \in DiscardTags : Unregister(1, tag)
    \/ ReadActive

SpecDiscardRegistry == InitDiscardRegistry /\ [][NextDiscardRegistry]_vars

\* o is what the read of s gives when _ has its default handler and when the discard form
\* is taken out of s, and the read has not looked _ up
DiscardByReader(o) ==
    /\ SameOutcome(o, loads(s, max_depth,
                            register(o.rd.tag_registry, tag_discard, "_handle_discard")))
    /\ SameOutcome(o, loads(shape.kept, max_depth, o.rd.tag_registry))
    /\ \A i \in DOMAIN o.rd.lookups : o.rd.lookups[i].tag /= tag_discard

\* C30: whatever the active registry holds under _ and under other tags, also with _
\* unregistered or registered with another handler, a read drops the form behind #_ and
\* yields the one after it, as it does under the default handler of _, and never gets the
\* handler of _ from the registry.
C30_DiscardByReader ==
    shape.kind = "discard_registry"
        => /\ out.k /= "none" => DiscardByReader(out)
           /\ out2.k /= "none" => DiscardByReader(out2)

\* a read with another handler under _, then a read with _ unregistered
C30_Witness ==
    /\ shape.kind = "discard_registry"
    /\ pc = "done"
    /\ out.k = "ok"
    /\ get_handler(out.rd.tag_registry, tag_discard) = "double_handler"
    /\ out2.k = "ok"
    /\ get_handler(out2.rd.tag_registry, tag_discard) = None

Spec == SpecRoundTrip

====
